---- MODULE Spec2Model ----
(***************************************************************************)
(* Constant-time primitives, hex codec and Base64 codec of                 *)
(* github.com/ericlagergren/subtle, modelled operation by operation.       *)
(*                                                                         *)
(* Go's fixed-width integers are modelled as little-endian sequences of    *)
(* byte lanes (lane 1 is the least significant byte), so that wrap-around  *)
(* subtraction, carries between SWAR lanes and shifts behave as they do on *)
(* the machine.  A byte is a number in 0..255.                             *)
(***************************************************************************)
EXTENDS Integers, Sequences, FiniteSets, TLC

-----------------------------------------------------------------------------
(* Bit operations on bytes and on words.                                   *)

\* The function f with domain 1..n as a sequence value (evaluated once).
AsSeq(f) == <<>> \o f

Bit(a, i) == (a \div (2^i)) % 2

\* a & b on 4-bit values, tabulated once.
AndNib ==
  AsSeq([a \in 1..16 |-> AsSeq([b \in 1..16 |->
      Bit(a-1,0)*Bit(b-1,0) + 2*Bit(a-1,1)*Bit(b-1,1)
    + 4*Bit(a-1,2)*Bit(b-1,2) + 8*Bit(a-1,3)*Bit(b-1,3)])])

\* a & b, a | b, a ^ b on bytes.
And8(a, b) ==
    16 * AndNib[(a \div 16) + 1][(b \div 16) + 1]
  + AndNib[(a % 16) + 1][(b % 16) + 1]
Or8(a, b)  == a + b - And8(a, b)
Xor8(a, b) == a + b - 2 * And8(a, b)

\* byte(x) of a non-negative number.
Byte(x) == x % 256

\* The w-lane word holding the non-negative number v (v < 2^31).
ToWord(v, w) ==
  AsSeq([i \in 1..w |-> IF i <= 3 THEN (v \div (256^(i-1))) % 256
                        ELSE IF i = 4 THEN v \div 16777216
                        ELSE 0])

\* The number held by a word whose value is below 2^31.
WInt(x) == x[1] + 256 * x[2] + 65536 * x[3] + 16777216 * x[4]

\* Lane j of x, zero outside the word.
Lane(x, j) == IF j \in 1..Len(x) THEN x[j] ELSE 0

WAnd(x, y) == AsSeq([i \in 1..Len(x) |-> And8(x[i], y[i])])
WOr(x, y)  == AsSeq([i \in 1..Len(x) |-> Or8(x[i], y[i])])
WXor(x, y) == AsSeq([i \in 1..Len(x) |-> Xor8(x[i], y[i])])
WNot(x)    == AsSeq([i \in 1..Len(x) |-> 255 - x[i]])

\* The lanes of x + y from lane i on, with carry c into lane i.
RECURSIVE AddLanes(_, _, _, _)
AddLanes(x, y, c, i) ==
  IF i > Len(x) THEN <<>>
  ELSE <<(x[i] + y[i] + c) % 256>>
       \o AddLanes(x, y, (x[i] + y[i] + c) \div 256, i + 1)

\* x + y + c0 modulo 2^(8*Len(x)).
WAddc(x, y, c0) == AddLanes(x, y, c0, 1)

WAdd(x, y) == WAddc(x, y, 0)
\* x - y modulo 2^(8*Len(x)) (two's complement).
WSub(x, y) == WAddc(x, WNot(y), 1)

\* x << k and x >> k (logical), 0 <= k < 8*Len(x).
WShl(x, k) ==
  AsSeq([i \in 1..Len(x) |->
      ((Lane(x, i - (k \div 8)) * (2^(k % 8))) % 256)
    + (Lane(x, i - (k \div 8) - 1) \div (2^(8 - (k % 8))))])

WShr(x, k) ==
  AsSeq([i \in 1..Len(x) |->
      (Lane(x, i + (k \div 8)) \div (2^(k % 8)))
    + ((Lane(x, i + (k \div 8) + 1) * (2^(8 - (k % 8)))) % 256)])

\* The word whose every lane is b.
Rep(b, w) == AsSeq([i \in 1..w |-> b])

\* x >> k on a signed word (arithmetic shift).
WSar(x, k) ==
  LET ext == x \o Rep(IF x[Len(x)] >= 128 THEN 255 ELSE 0, Len(x))
  IN  SubSeq(WShr(ext, k), 1, Len(x))

\* A word written most significant byte first, as in the source's literals.
BE(bytes) == AsSeq([i \in 1..Len(bytes) |-> bytes[Len(bytes) + 1 - i]])

-----------------------------------------------------------------------------
(* crypto/subtle, to which the package's wrappers delegate.                *)

\* ^(v-1)&x | (v-1)&y on 64-bit ints: x if v = 1, y if v = 0.
ConstantTimeSelect(v, x, y) ==
  LET m == WSub(ToWord(v, 8), ToWord(1, 8))
  IN  WInt(WOr(WAnd(WNot(m), ToWord(x, 8)), WAnd(m, ToWord(y, 8))))

\* int((uint32(x^y) - 1) >> 31)
ConstantTimeByteEq(x, y) ==
  WInt(WShr(WSub(ToWord(Xor8(x, y), 4), ToWord(1, 4)), 31))

\* Fault for C14: y is not subtracted as y + 1, so equal operands give 0.
ConstantTimeLess(x, y) ==
  WInt(WAnd(WSar(WSub(ToWord(x, 4), ToWord(y, 4)), 31), ToWord(1, 4)))

\* int(((int32(x) - int32(y) - 1) >> 31) & 1)
ConstantTimeLessOrEq(x, y) ==
  WInt(WAnd(WSar(WSub(WSub(ToWord(x, 4), ToWord(y, 4)), ToWord(1, 4)), 31),
            ToWord(1, 4)))

ConstantTimeByteLessOrEq(x, y) == ConstantTimeLessOrEq(x, y)

ConstantTimeByteGreater(x, y) == Xor8(ConstantTimeByteLessOrEq(x, y), 1)

\* Fault for C5: gt ignores neq, so a less significant byte can overrule a
\* more significant one.
RECURSIVE BigEndianLoopNoNeq(_, _, _, _)
BigEndianLoopNoNeq(x, y, i, st) ==
  IF i > Len(x) THEN st
  ELSE LET gt == Or8(st.gt, ConstantTimeByteGreater(x[i], y[i]))
       IN  BigEndianLoopNoNeq(x, y, i + 1, [neq |-> st.neq, gt |-> gt])

\* The loop of ConstantTimeBigEndianLessOrEq from index i on; st = [neq, gt].
RECURSIVE BigEndianLoop(_, _, _, _)
BigEndianLoop(x, y, i, st) ==
  IF i > Len(x) THEN st
  ELSE LET gt  == Or8(st.gt, ConstantTimeSelect(st.neq, 0,
                        ConstantTimeByteGreater(x[i], y[i])))
           neq == Or8(st.neq, ConstantTimeSelect(gt, 0,
                        Xor8(ConstantTimeByteEq(x[i], y[i]), 1)))
       IN  BigEndianLoop(x, y, i + 1, [neq |-> neq, gt |-> gt])

\* Returns "panic" when the lengths differ, else gt ^ 1.
ConstantTimeBigEndianLessOrEq(x, y) ==
  IF Len(x) # Len(y) THEN "panic"
  ELSE Xor8(BigEndianLoop(x, y, 1, [neq |-> 0, gt |-> 0]).gt, 1)

-----------------------------------------------------------------------------
(* Package hex.                                                            *)

NoError == <<"nil">>
ErrLength == <<"ErrLength">>
InvalidByteError(c) == <<"InvalidByteError", c>>

\* Fault for C3: the digits above 9 come out in upper case
\* (55 and ^6 in place of 87 and ^38).
HexDigitUpper(c) ==
  WAdd(WAdd(ToWord(55, 8), ToWord(c, 8)),
       WAnd(WShr(WSub(ToWord(c, 8), ToWord(10, 8)), 8),
            WNot(ToWord(6, 8))))[1]

\* byte(87 + c + (((c - 10) >> 8) & ^uint(38))) for a nibble c.
HexDigit(c) ==
  WAdd(WAdd(ToWord(87, 8), ToWord(c, 8)),
       WAnd(WShr(WSub(ToWord(c, 8), ToWord(10, 8)), 8),
            WNot(ToWord(38, 8))))[1]

\* The loop of hex.Encode from source index k (1-based) on. Pass k writes
\* dst[j+1] and dst[j] for j = 2*(k-1) and nothing else, so the buffer
\* after the loop is given cell by cell: 0-based cell i - 1 holds the low
\* digit of src[i \div 2] when it is a dst[j+1] and the high digit of
\* src[(i + 1) \div 2] when it is a dst[j].
HexEncodeLoop(dst, src, k) ==
  AsSeq([i \in 1..Len(dst) |->
     IF i <= 2 * (k - 1) \/ i > 2 * Len(src) THEN dst[i]
     ELSE IF i % 2 = 0 THEN HexDigit(And8(src[i \div 2], 15))
     ELSE HexDigit(src[(i + 1) \div 2] \div 16)])

\* hex.Encode(dst, src): the buffer afterwards and the returned count.
HexEncode(dst, src) ==
  [dst |-> HexEncodeLoop(dst, src, 1), n |-> Len(src) * 2]

\* The per-character classification of hex.Decode and validHexChar:
\* num, num0, alpha, alpha0 as 64-bit words.
HexClassOf(c) ==
  LET cw     == ToWord(c, 8)
      num    == WXor(cw, ToWord(48, 8))
      num0   == WShr(WSub(num, ToWord(10, 8)), 8)
      alpha  == WSub(WAnd(cw, WNot(ToWord(32, 8))), ToWord(55, 8))
      alpha0 == WShr(WXor(WSub(alpha, ToWord(10, 8)),
                          WSub(alpha, ToWord(16, 8))), 8)
  IN  [num |-> num, num0 |-> num0, alpha |-> alpha, alpha0 |-> alpha0]

\* HexClassOf for every byte value, computed once.
HexClassTable == AsSeq([k \in 1..256 |-> HexClassOf(k - 1)])

HexClass(c) == HexClassTable[c + 1]

\* Fault for C4: the guard on failed is missing, so a later invalid byte
\* overwrites what was recorded.
RecordLastBad(failed, bad, old, cur) ==
  ConstantTimeSelect(bad, cur, old)

\* The recorded index (or character) of the first invalid byte: kept once
\* failed is set, replaced by cur when this byte is bad.
RecordBad(failed, bad, old, cur) ==
  ConstantTimeSelect(failed, old, ConstantTimeSelect(bad, cur, old))

\* bad := ConstantTimeByteEq(byte(num0|alpha0), 0) for the class k of a byte.
HexBad(k) == ConstantTimeByteEq(WOr(k.num0, k.alpha0)[1], 0)

\* val := byte(num0&num | alpha0&alpha)
HexVal(k) == WOr(WAnd(k.num0, k.num), WAnd(k.alpha0, k.alpha))[1]

\* The updates of badIdx, badChar and failed for the byte c.
HexRecord(st, bad, c) ==
  [st EXCEPT !.badIdx  = RecordBad(st.failed, bad, st.badIdx, st.i),
             !.badChar = RecordBad(st.failed, bad, st.badChar, c),
             !.failed  = Or8(st.failed, bad)]

\* The store of val: into acc for an even j, into dst[i] for an odd j.
HexStore(st, val, j) ==
  IF j % 2 = 0
  THEN [st EXCEPT !.acc = Byte(val * 16)]
  ELSE [st EXCEPT !.dst = [st.dst EXCEPT ![st.i + 1] = Or8(st.acc, val)],
                  !.i = st.i + 1]

\* The loop body for a byte c of class k.
HexDecodeClassified(st, k, c, j) ==
  HexStore(HexRecord(st, HexBad(k), c), HexVal(k), j)

\* One iteration of the loop of hex.Decode for src[j] (j is the 0-based
\* source index); st = [failed, badIdx, badChar, acc, i, dst].
HexDecodeStep(st, c, j) == HexDecodeClassified(st, HexClass(c), c, j)

RECURSIVE HexDecodeLoop(_, _, _)
HexDecodeLoop(st, src, j) ==
  IF j >= Len(src) THEN st
  ELSE HexDecodeLoop(HexDecodeStep(st, src[j + 1], j), src, j + 1)

\* The return statements of hex.Decode for the state st the loop ends in.
HexDecodeReturn(st, src) ==
  IF st.failed # 0
  THEN [dst |-> st.dst, n |-> st.badIdx, err |-> InvalidByteError(st.badChar)]
  ELSE IF Len(src) % 2 = 1
  THEN [dst |-> st.dst, n |-> st.i, err |-> ErrLength]
  ELSE [dst |-> st.dst, n |-> st.i, err |-> NoError]

\* hex.Decode(dst, src): the buffer afterwards, the count and the error.
HexDecode(dst, src) ==
  HexDecodeReturn(
    HexDecodeLoop([failed |-> 0, badIdx |-> 0, badChar |-> 0,
                   acc |-> 0, i |-> 0, dst |-> dst], src, 0),
    src)

validHexChar(c) == HexBad(HexClass(c)) = 0

-----------------------------------------------------------------------------
(* Package base64: alphabets and lookups.                                  *)

StdPadding == 61
NoPadding == -1

ErrCorrupt == <<"ErrCorrupt">>

\* The scalar forward lookup; k62 and k63 are the last two shifts
\* (stdLookup: 15 and 3, urlLookup: 13 and 49).
Lookup(c, k62, k63) ==
  LET cw    == ToWord(c, 8)
      Ge(a) == WShr(WSub(WSub(ToWord(a, 8), cw), ToWord(1, 8)), 8)
      s0    == ToWord(65, 8)
      s1    == WAdd(s0, WAnd(Ge(26), ToWord(6, 8)))
      s2    == WSub(s1, WAnd(Ge(52), ToWord(75, 8)))
      s3    == WSub(s2, WAnd(Ge(62), ToWord(k62, 8)))
      s4    == WAdd(s3, WAnd(Ge(63), ToWord(k63, 8)))
  IN  WAdd(cw, s4)[1]

stdLookup(c) == Lookup(c, 15, 3)

urlLookup(c) == Lookup(c, 13, 49)

\* The per-lane shift computation shared by the SWAR lookups, from
\* "const msb" to the return; m62 and m63 are the masks of c2 and c3
\* (std: 0x11 and 0x1d, url: 0x0d and 0x31).
SWARShift(c, m62, m63) ==
  LET w          == Len(c)
      msb        == Rep(128, w)
      Ge(k)      == WAnd(WAdd(c, Rep(k, w)), msb)
      Mask(g, m) == WAnd(WSub(g, WShr(g, 7)), Rep(m, w))
      c0         == Mask(Ge(102), 6)
      c1msb      == Ge(76)
      c1         == Mask(c1msb, 59)
      c2         == Mask(Ge(66), m62)
      c3         == Mask(Ge(65), m63)
      s          == WXor(WXor(WXor(WXor(Rep(65, w), c0), c1), c2), c3)
  IN  WXor(WAdd(c, s), c1msb)

\* The unpacking of six source bytes (bits 63..16 of u) into eight lanes.
SWAR6Unpack(u) ==
  LET u0 == WAnd(WShl(u, 24), BE(<<255, 255, 255, 0, 0, 0, 0, 0>>))
      u1 == WAnd(WShr(u, 32), BE(<<0, 0, 0, 0, 255, 255, 255, 0>>))
      v  == WOr(u0, u1)
      a  == WAnd(WShr(v, 26), BE(<<0, 0, 0, 63, 0, 0, 0, 63>>))
      b  == WAnd(WShr(v, 12), BE(<<0, 0, 63, 0, 0, 0, 63, 0>>))
      d  == WAnd(WShl(v, 2),  BE(<<0, 63, 0, 0, 0, 63, 0, 0>>))
      e  == WAnd(WShl(v, 16), BE(<<63, 0, 0, 0, 63, 0, 0, 0>>))
  IN  WOr(WOr(WOr(a, b), d), e)

\* The unpacking of three source bytes (bits 31..8 of u) into four lanes.
SWAR3Unpack(u) ==
  LET a == WAnd(WShr(u, 26), BE(<<0, 0, 0, 63>>))
      b == WAnd(WShr(u, 12), BE(<<0, 0, 63, 0>>))
      d == WAnd(WShl(u, 2),  BE(<<0, 63, 0, 0>>))
      e == WAnd(WShl(u, 16), BE(<<63, 0, 0, 0>>))
  IN  WOr(WOr(WOr(a, b), d), e)

\* Fault for C22: the mask of the sextet 63 is 0x1c.
stdLookupSWAR3Mask(u) == SWARShift(SWAR3Unpack(u), 17, 28)

stdLookupSWAR6(u) == SWARShift(SWAR6Unpack(u), 17, 29)

stdLookupSWAR3(u) == SWARShift(SWAR3Unpack(u), 17, 29)

urlLookupSWAR6(u) == SWARShift(SWAR6Unpack(u), 13, 49)

urlLookupSWAR3(u) == SWARShift(SWAR3Unpack(u), 13, 49)

\* The reverse lookup on a 64-bit word c.  r62 and r63 are the
\* <<low, high, add>> constants of its last two range tests; RevShift is
\* the sum s of the range tests.
RevShift(c, r62, r63) ==
  LET In(a, b) == WShr(WAnd(WSub(ToWord(a, 8), c), WSub(c, ToWord(b, 8))), 8)
  IN  WXor(WXor(WXor(WXor(
        WAnd(In(64, 91), ToWord(191, 8)),
        WAnd(In(96, 123), ToWord(185, 8))),
        WAnd(In(47, 58), ToWord(4, 8))),
        WAnd(In(r62[1], r62[2]), ToWord(r62[3], 8))),
        WAnd(In(r63[1], r63[2]), ToWord(r63[3], 8)))

\* The returned byte for the shift s: (s + c) & 0x3f, or 0xff when s is 0.
RevResult(s, c) ==
  Or8(And8(WAdd(s, c)[1], 63),
      Xor8(WShr(WSub(ToWord(0, 8), s), 8)[1], 255))

RevLookupWord(c, r62, r63) == RevResult(RevShift(c, r62, r63), c)

\* Fault for C20: '/' is shifted by 15.
stdRevLookupWordSlash(c) == RevLookupWord(c, <<42, 44, 19>>, <<46, 48, 15>>)

\* stdRevLookup(c) for a uint c: '+' is 62 and '/' is 63.
stdRevLookupWord(c) == RevLookupWord(c, <<42, 44, 19>>, <<46, 48, 16>>)

\* urlRevLookup(c) for a uint c: the source gives it the same range
\* constants as stdRevLookup.
urlRevLookupWord(c) == RevLookupWord(c, <<42, 44, 19>>, <<46, 48, 16>>)

\* stdRevLookup for every byte, evaluated once.
StdRevTable == AsSeq([k \in 1..256 |-> stdRevLookupWord(ToWord(k - 1, 8))])

\* urlRevLookup for every byte, evaluated once.
UrlRevTable == AsSeq([k \in 1..256 |-> urlRevLookupWord(ToWord(k - 1, 8))])

stdRevLookup(c) == StdRevTable[c + 1]

urlRevLookup(c) == UrlRevTable[c + 1]

-----------------------------------------------------------------------------
(* Package base64: block encoding.                                         *)

\* dst with bytes written at the 0-based offset d.
Put(dst, d, bytes) ==
  AsSeq([k \in 1..Len(dst) |->
     IF k > d /\ k <= d + Len(bytes) THEN bytes[k - d] ELSE dst[k]])

\* The lookups of the two alphabets, selected as stdEncode and urlEncode
\* select them.
LookupOf(alpha, c) == IF alpha = "std" THEN stdLookup(c) ELSE urlLookup(c)

SWAR6Of(alpha, u) ==
  IF alpha = "std" THEN stdLookupSWAR6(u) ELSE urlLookupSWAR6(u)

SWAR3Of(alpha, u) ==
  IF alpha = "std" THEN stdLookupSWAR3(u) ELSE urlLookupSWAR3(u)

\* "Convert 6 -> 8 with at least 8 src bytes"; st = [dst, s, d] where s
\* and d are the offsets the slices src and dst have advanced by.
RECURSIVE EncodeLoop8(_, _, _)
EncodeLoop8(alpha, src, st) ==
  IF Len(src) - st.s >= 8 /\ Len(st.dst) - st.d >= 8
  THEN LET u == BE(SubSeq(src, st.s + 1, st.s + 8))
       IN  EncodeLoop8(alpha, src,
             [dst |-> Put(st.dst, st.d, SWAR6Of(alpha, u)),
              s |-> st.s + 6, d |-> st.d + 8])
  ELSE st

\* "Convert 3 -> 4 with at least 3 src bytes".
RECURSIVE EncodeLoop3(_, _, _)
EncodeLoop3(alpha, src, st) ==
  IF Len(src) - st.s >= 3
  THEN LET v == WOr(WOr(WShl(ToWord(src[st.s + 1], 4), 16),
                        WShl(ToWord(src[st.s + 2], 4), 8)),
                    ToWord(src[st.s + 3], 4))
       IN  EncodeLoop3(alpha, src,
             [dst |-> Put(st.dst, st.d, SWAR3Of(alpha, WShl(v, 8))),
              s |-> st.s + 3, d |-> st.d + 4])
  ELSE st

\* The lookup of each sextet of a sequence.
LookupAll(alpha, sextets) ==
  AsSeq([i \in 1..Len(sextets) |-> LookupOf(alpha, sextets[i])])

\* The sextets of the 1 or 2 bytes left at offset s, most significant first.
TailSextets(src, s) ==
  LET Sextet(v, k) == WAnd(WShr(v, k), ToWord(63, 8))[1]
      v2 == WOr(WShl(ToWord(src[s + 1], 8), 16),
                WShl(ToWord(src[s + 2], 8), 8))
      v1 == WShl(ToWord(src[s + 1], 8), 16)
  IN  CASE Len(src) - s = 2 -> <<Sextet(v2, 18), Sextet(v2, 12), Sextet(v2, 6)>>
        [] Len(src) - s = 1 -> <<Sextet(v1, 18), Sextet(v1, 12)>>
        [] OTHER -> <<>>

\* Fault for C13: the pad characters are stored whether or not the encoding
\* is padded.
TailPaddingAlways(left, padChar) ==
  CASE left = 2 -> <<Byte(padChar)>>
    [] left = 1 -> <<Byte(padChar), Byte(padChar)>>
    [] OTHER -> <<>>

\* The pad characters that follow them.
TailPadding(left, padChar) ==
  IF padChar = NoPadding THEN <<>>
  ELSE CASE left = 2 -> <<Byte(padChar)>>
         [] left = 1 -> <<Byte(padChar), Byte(padChar)>>
         [] OTHER -> <<>>

\* The final switch on the 1 or 2 bytes left.
EncodeTail(alpha, src, st, padChar) ==
  Put(st.dst, st.d,
      LookupAll(alpha, TailSextets(src, st.s))
        \o TailPadding(Len(src) - st.s, padChar))

\* The body shared by stdEncode and urlEncode: dst after the call.
EncodeBody(alpha, dst, src, padChar) ==
  IF Len(src) = 0 THEN dst
  ELSE EncodeTail(alpha, src,
         EncodeLoop3(alpha, src,
           EncodeLoop8(alpha, src, [dst |-> dst, s |-> 0, d |-> 0])),
         padChar)

stdEncode(dst, src, padChar) == EncodeBody("std", dst, src, padChar)

urlEncode(dst, src, padChar) == EncodeBody("url", dst, src, padChar)

-----------------------------------------------------------------------------
(* Package base64: block decoding.                                         *)

RevLookupOf(alpha, c) ==
  IF alpha = "std" THEN stdRevLookup(c) ELSE urlRevLookup(c)

\* The reverse lookup of every character of src: c[i] is what the decoder
\* computes for src[i].
RevChars(alpha, src) ==
  AsSeq([i \in 1..Len(src) |-> RevLookupOf(alpha, src[i])])

\* failed | c[1] | ... | c[k]
RECURSIVE OrAll(_, _)
OrAll(failed, c) ==
  IF c = <<>> THEN failed ELSE OrAll(Or8(failed, Head(c)), Tail(c))

\* The 8 -> 6 loop; c holds the reverse lookups of the input after pad
\* stripping, st = [dst, s, n, failed], s the offset the input has advanced
\* by.
RECURSIVE DecodeLoop8(_, _)
DecodeLoop8(c, st) ==
  IF Len(c) - st.s >= 8 /\ Len(st.dst) - st.n >= 8
  THEN LET sh(i) == WShl(ToWord(c[st.s + i], 8), 64 - 6 * i)
           w == WOr(WOr(WOr(WOr(WOr(WOr(WOr(sh(1), sh(2)), sh(3)), sh(4)),
                    sh(5)), sh(6)), sh(7)), sh(8))
       IN  DecodeLoop8(c,
             [dst |-> Put(st.dst, st.n, BE(w)), s |-> st.s + 8,
              n |-> st.n + 6,
              failed |-> OrAll(st.failed, SubSeq(c, st.s + 1, st.s + 8))])
  ELSE st

\* The 4 -> 3 loop that stores a 32-bit word.
RECURSIVE DecodeLoop4(_, _)
DecodeLoop4(c, st) ==
  IF Len(c) - st.s >= 4 /\ Len(st.dst) - st.n >= 4
  THEN LET sh(i) == WShl(ToWord(c[st.s + i], 4), 32 - 6 * i)
           w == WOr(WOr(WOr(sh(1), sh(2)), sh(3)), sh(4))
       IN  DecodeLoop4(c,
             [dst |-> Put(st.dst, st.n, BE(w)), s |-> st.s + 4,
              n |-> st.n + 3,
              failed |-> OrAll(st.failed, SubSeq(c, st.s + 1, st.s + 4))])
  ELSE st

\* The bytes of a full or partial group g of reverse lookups.
GroupBytes(g) ==
  << Or8(Byte(g[1] * 4), g[2] \div 16) >>
    \o (IF Len(g) >= 3 THEN << Or8(Byte(g[2] * 16), g[3] \div 4) >> ELSE <<>>)
    \o (IF Len(g) >= 4 THEN << Or8(Byte(g[3] * 64), g[4]) >> ELSE <<>>)

\* Fault for C12: the byte-by-byte loop leaves at the first invalid group.
RECURSIVE DecodeLoopScalarEarlyExit(_, _)
DecodeLoopScalarEarlyExit(c, st) ==
  IF Len(c) - st.s >= 4 /\ st.failed # 255
  THEN DecodeLoopScalarEarlyExit(c,
         [dst |-> Put(st.dst, st.n, GroupBytes(SubSeq(c, st.s + 1, st.s + 4))),
          s |-> st.s + 4, n |-> st.n + 3,
          failed |-> OrAll(st.failed, SubSeq(c, st.s + 1, st.s + 4))])
  ELSE st

\* The 4 -> 3 loop that stores byte by byte.
RECURSIVE DecodeLoopScalar(_, _)
DecodeLoopScalar(c, st) ==
  IF Len(c) - st.s >= 4
  THEN DecodeLoopScalar(c,
         [dst |-> Put(st.dst, st.n, GroupBytes(SubSeq(c, st.s + 1, st.s + 4))),
          s |-> st.s + 4, n |-> st.n + 3,
          failed |-> OrAll(st.failed, SubSeq(c, st.s + 1, st.s + 4))])
  ELSE st

\* Fault for C10: the mask is not applied, so every non-zero sextet fails.
StrictBitsUnmasked(c, mask) ==
  WShr(WSub(ToWord(0, 8), ToWord(c, 8)), 8)[1]

\* byte((0 - uint(c & mask)) >> 8): 0xff iff c & mask is non-zero.
StrictBits(c, mask) ==
  WShr(WSub(ToWord(0, 8), ToWord(And8(c, mask), 8)), 8)[1]

\* The strict check of a partial group g: c2&0x3 for three characters,
\* c1&0xf for two.
StrictTail(g, strict) ==
  IF strict
  THEN StrictBits(g[Len(g)], IF Len(g) = 3 THEN 3 ELSE 15)
  ELSE 0

\* The final switch on the characters left.
DecodeTail(c, st, strict) ==
  CASE Len(c) - st.s \in {2, 3} ->
         [st EXCEPT
            !.dst = Put(st.dst, st.n, GroupBytes(SubSeq(c, st.s + 1, Len(c)))),
            !.failed = Or8(OrAll(st.failed, SubSeq(c, st.s + 1, Len(c))),
                           StrictTail(SubSeq(c, st.s + 1, Len(c)), strict)),
            !.n = st.n + (Len(c) - st.s - 1)]
    [] Len(c) - st.s = 0 -> st
    [] OTHER -> [st EXCEPT !.failed = Or8(st.failed, 255)]

\* The number of trailing pad characters stripped from a padded input.
PadCount(src, padChar) ==
    ConstantTimeByteEq(src[Len(src)], Byte(padChar))
  + ConstantTimeByteEq(src[Len(src) - 1], Byte(padChar))

\* Fault for C6: a padded input of length 2 or 3 mod 4 is let through.
CorruptLengthMod1(src, padChar) == Len(src) % 4 = 1

\* The switch on len(src) % 4 for a non-empty src: TRUE when the length is
\* rejected.
CorruptLength(src, padChar) ==
  CASE Len(src) % 4 = 0 -> FALSE
    [] Len(src) % 4 \in {2, 3} -> padChar # NoPadding
    [] OTHER -> TRUE

\* src[:len(src)-t]: a padded src without its trailing pad characters.
StripPadding(src, padChar) ==
  IF padChar # NoPadding
  THEN SubSeq(src, 1, Len(src) - PadCount(src, padChar))
  ELSE src

\* The final return of the decoder for the state st the scan ends in.
DecodeReturn(st) ==
  [dst |-> st.dst, n |-> st.n,
   err |-> IF And8(st.failed, 255) = 255 THEN ErrCorrupt ELSE NoError]

\* The three loops, the final switch and the return, for the reverse
\* lookups c of the input.
DecodeLoops(c, dst, strict) ==
  DecodeReturn(
    DecodeTail(c,
      DecodeLoopScalar(c,
        DecodeLoop4(c,
          DecodeLoop8(c, [dst |-> dst, s |-> 0, n |-> 0, failed |-> 0]))),
      strict))

\* The scan of src, the input after pad stripping.
DecodeScan(alpha, dst, src, strict) ==
  DecodeLoops(RevChars(alpha, src), dst, strict)

\* The body shared by stdDecode and urlDecode: dst after the call, n, err.
DecodeBody(alpha, dst, src, padChar, strict) ==
  IF Len(src) = 0 THEN [dst |-> dst, n |-> 0, err |-> NoError]
  ELSE IF CorruptLength(src, padChar)
  THEN [dst |-> dst, n |-> 0, err |-> ErrCorrupt]
  ELSE DecodeScan(alpha, dst, StripPadding(src, padChar), strict)

stdDecode(dst, src, padChar, strict) ==
  DecodeBody("std", dst, src, padChar, strict)

urlDecode(dst, src, padChar, strict) ==
  DecodeBody("url", dst, src, padChar, strict)

-----------------------------------------------------------------------------
(* Package base64: the Encoding type and the four canonical encodings.     *)

StdEncoding ==
  [encode |-> "stdEncode", decode |-> "stdDecode",
   padChar |-> StdPadding, strict |-> FALSE]

RawStdEncoding ==
  [encode |-> "stdEncode", decode |-> "stdDecode",
   padChar |-> NoPadding, strict |-> FALSE]

URLEncoding ==
  [encode |-> "urlEncode", decode |-> "urlDecode",
   padChar |-> StdPadding, strict |-> FALSE]

RawURLEncoding ==
  [encode |-> "urlEncode", decode |-> "urlDecode",
   padChar |-> NoPadding, strict |-> FALSE]

Strict(e) == [e EXCEPT !.strict = TRUE]

EncodedLen(e, n) ==
  IF e.padChar = NoPadding THEN (n * 8 + 5) \div 6 ELSE ((n + 2) \div 3) * 4

DecodedLen(e, n) ==
  IF e.padChar = NoPadding THEN (n * 6) \div 8 ELSE (n \div 4) * 3

\* e.Encode(dst, src): dst after the call.
Encode(e, dst, src) ==
  IF e.encode = "stdEncode" THEN stdEncode(dst, src, e.padChar)
  ELSE urlEncode(dst, src, e.padChar)

\* e.Decode(dst, src): dst after the call, n and err.
Decode(e, dst, src) ==
  IF e.decode = "stdDecode" THEN stdDecode(dst, src, e.padChar, e.strict)
  ELSE urlDecode(dst, src, e.padChar, e.strict)

\* uint(r) of a rune r as a 64-bit word; a negative r wraps around.
RuneWord(r) ==
  IF r >= 0 THEN ToWord(r, 8) ELSE WSub(ToWord(0, 8), ToWord(0 - r, 8))

\* The two tests of the second case of WithPadding's switch:
\* urlRevLookup(uint(r)) != 0xff, stdRevLookup(uint(r)) != 0xff.
PaddingInAlphabet(c) ==
  \/ urlRevLookupWord(c) # 255
  \/ stdRevLookupWord(c) # 255

\* e.WithPadding(r): whether it panics, and the copy of e it returns
\* otherwise.
WithPadding(e, r) ==
  IF r = 13 \/ r = 10 \/ r > 255
  THEN [panic |-> "base64: invalid padding", ret |-> <<>>]
  ELSE IF PaddingInAlphabet(RuneWord(r))
  THEN [panic |-> "base64: padding contained in alphabet", ret |-> <<>>]
  ELSE [panic |-> "", ret |-> <<[e EXCEPT !.padChar = r]>>]


-----------------------------------------------------------------------------
(* The control flow of a block decoding: which branch the length check     *)
(* takes, how many characters the pad stripping slices off, how often each *)
(* loop runs, which case the final switch takes and which indices of dst   *)
(* are stored to, in order.  The loops have no branch on a byte value, so  *)
(* the iteration counts are read off the offsets they end at.              *)

\* The stores of k iterations that start at index n0, advance by step and
\* store the index ranges offs (a sequence of <<offset, width>>).
StoresOf(k, n0, step, offs) ==
  AsSeq([j \in 1..(k * Len(offs)) |->
     << n0 + step * ((j - 1) \div Len(offs)) + offs[((j - 1) % Len(offs)) + 1][1],
        offs[((j - 1) % Len(offs)) + 1][2] >>])

\* The return: the trace sh and what the decoder returns for the state st.
TraceReturn(sh, st) == [trace |-> sh, res |-> DecodeReturn(st)]

\* The final switch, entered in the state st.
TraceTail(c, sh, st, strict) ==
  TraceReturn(
    [sh EXCEPT !.switch = Len(c) - st.s,
               !.stores = sh.stores \o
                 StoresOf(1, st.n, 0,
                   CASE Len(c) - st.s = 3 -> <<<<0, 1>>, <<1, 1>>>>
                     [] Len(c) - st.s = 2 -> <<<<0, 1>>>>
                     [] OTHER -> <<>>)],
    DecodeTail(c, st, strict))

\* The byte-by-byte loop, entered in the state st and left in the state to.
TraceLoopScalarTo(c, sh, st, to, strict) ==
  TraceTail(c,
    [sh EXCEPT !.scalar = (to.s - st.s) \div 4,
               !.stores = sh.stores \o
                 StoresOf((to.s - st.s) \div 4, st.n, 3,
                          <<<<0, 1>>, <<1, 1>>, <<2, 1>>>>)],
    to, strict)

TraceLoopScalar(c, sh, st, strict) ==
  TraceLoopScalarTo(c, sh, st, DecodeLoopScalar(c, st), strict)

\* The PutUint32 loop, entered in the state st and left in the state to.
TraceLoop4To(c, sh, st, to, strict) ==
  TraceLoopScalar(c,
    [sh EXCEPT !.loop4 = (to.s - st.s) \div 4,
               !.stores = sh.stores \o
                 StoresOf((to.s - st.s) \div 4, st.n, 3, <<<<0, 4>>>>)],
    to, strict)

TraceLoop4(c, sh, st, strict) ==
  TraceLoop4To(c, sh, st, DecodeLoop4(c, st), strict)

\* The PutUint64 loop, entered in the state st and left in the state to.
TraceLoop8To(c, sh, st, to, strict) ==
  TraceLoop4(c,
    [sh EXCEPT !.loop8 = (to.s - st.s) \div 8,
               !.stores = sh.stores \o
                 StoresOf((to.s - st.s) \div 8, st.n, 6, <<<<0, 8>>>>)],
    to, strict)

TraceLoop8(c, sh, st, strict) ==
  TraceLoop8To(c, sh, st, DecodeLoop8(c, st), strict)

\* The trace of a call that returns at the length check (stripped = 0) or
\* has sliced stripped characters off.
TraceStart(branch, stripped) ==
  [length |-> branch, stripped |-> stripped, loop8 |-> 0, loop4 |-> 0,
   scalar |-> 0, switch |-> 0, stores |-> <<>>]

\* The scan of rest, the input after pad stripping.
TraceScan(alpha, dst, src, rest, strict) ==
  TraceLoop8(RevChars(alpha, rest),
             TraceStart("scan", Len(src) - Len(rest)),
             [dst |-> dst, s |-> 0, n |-> 0, failed |-> 0], strict)

\* The body shared by stdDecode and urlDecode, with its trace.
TraceBody(alpha, dst, src, padChar, strict) ==
  IF Len(src) = 0
  THEN [trace |-> TraceStart("empty", 0),
        res |-> [dst |-> dst, n |-> 0, err |-> NoError]]
  ELSE IF CorruptLength(src, padChar)
  THEN [trace |-> TraceStart("corrupt length", 0),
        res |-> [dst |-> dst, n |-> 0, err |-> ErrCorrupt]]
  ELSE TraceScan(alpha, dst, src, StripPadding(src, padChar), strict)

\* e.Decode(dst, src) with its trace.
TraceDecode(e, dst, src) ==
  TraceBody(IF e.decode = "stdDecode" THEN "std" ELSE "url",
            dst, src, e.padChar, e.strict)

-----------------------------------------------------------------------------
(* The state machine: a caller who owns a source and a destination buffer  *)
(* and makes one call of the package after another.                        *)

VARIABLES
  pc,     \* the call that returned last ("start" before the first call)
  enc,    \* the base64 Encoding in use
  input,  \* the source buffer of the first call
  output, \* the destination buffer of the first call
  back,   \* the destination buffer of the decoding that follows an encoding
  cnt,    \* the count returned by the last call
  err,    \* the error returned by the last call
  cmpx,   \* the operands of a comparison
  cmpy,
  ret     \* the value the comparison returned

vars == <<pc, enc, input, output, back, cnt, err, cmpx, cmpy, ret>>

\* A destination buffer of k bytes as the caller hands it over: every byte
\* is 0xEE, which is no character of either alphabet or of hex.
Fill(k) == AsSeq([i \in 1..k |-> 238])

\* The room a destination buffer has beyond the documented output length.
DstSlack == {0, 1, 2}

\* All byte strings over S of length at most k.
RECURSIVE Strings(_, _)
Strings(S, k) ==
  IF k = 0 THEN {<<>>}
  ELSE LET shorter == Strings(S, k - 1)
       IN  shorter \cup
           {Append(s, b) : s \in {t \in shorter : Len(t) = k - 1}, b \in S}

CanonicalEncodings ==
  {StdEncoding, RawStdEncoding, URLEncoding, RawURLEncoding}

NoCompare == /\ cmpx = <<>> /\ cmpy = <<>> /\ ret = 0

-----------------------------------------------------------------------------
(* Package hex: the stream decoder.                                        *)

bufferSize == 1024

EOF == <<"io.EOF">>
ErrUnexpectedEOF == <<"io.ErrUnexpectedEOF">>

\* What a call r.Read(buf) of an underlying reader over the remaining bytes
\* rest can return when buf has room bytes: any number of the next bytes,
\* and io.EOF with or after the last of them.
ReaderReads(rest, room) ==
  {rd \in {[data |-> SubSeq(rest, 1, k), err |-> e] :
             k \in 0..(IF Len(rest) < room THEN Len(rest) ELSE room),
             e \in {NoError, EOF}} :
     rd.err = EOF => Len(rd.data) = Len(rest)}

\* Fault for C15: the last byte is not looked at.
HexOddTailErrorUnchecked(last) == ErrUnexpectedEOF

\* The error for an odd number of buffered bytes at io.EOF.
HexOddTailError(last) ==
  IF ~validHexChar(last) THEN InvalidByteError(last) ELSE ErrUnexpectedEOF

\* "Fill internal buffer with sufficient bytes to decode": d = [in, err]
\* after the reader returned rd.
hexDecoderFill(d, rd) ==
  IF Len(d.in) < 2 /\ d.err = NoError
  THEN [in  |-> d.in \o rd.data,
        err |-> IF rd.err = EOF /\ Len(d.in \o rd.data) % 2 # 0
                THEN HexOddTailError((d.in \o rd.data)[Len(d.in \o rd.data)])
                ELSE rd.err]
  ELSE d

\* The end of decoder.Read for the result dec of Decode and the buffered
\* bytes rest that follow the decoded ones: the decoder afterwards, the
\* bytes stored to p, n and err.
hexDecoderReturn(d, dec, rest) ==
  IF dec.err # NoError
  THEN [d |-> [in |-> <<>>, err |-> dec.err],
        bytes |-> SubSeq(dec.dst, 1, dec.n), n |-> dec.n, err |-> dec.err]
  ELSE [d |-> [in |-> rest, err |-> d.err],
        bytes |-> SubSeq(dec.dst, 1, dec.n), n |-> dec.n,
        err |-> IF Len(rest) < 2 THEN d.err ELSE NoError]

\* Fault for C27: d.in advances by numDec bytes.
hexDecoderAdvanceHalf(d, dec) ==
  hexDecoderReturn(d, dec, SubSeq(d.in, dec.n + 1, Len(d.in)))

\* d.in = d.in[2*numDec:]
hexDecoderAdvance(d, dec) ==
  hexDecoderReturn(d, dec, SubSeq(d.in, 2 * dec.n + 1, Len(d.in)))

\* numDec, err := Decode(p, d.in[:len(p)*2]) for len(p) = np.
hexDecoderDecode(d, np) ==
  hexDecoderAdvance(d, HexDecode(Fill(np), SubSeq(d.in, 1, 2 * np)))

\* "Decode internal buffer into output buffer": p is cut to numAvail.
hexDecoderCut(d, plen) ==
  hexDecoderDecode(d, IF plen > Len(d.in) \div 2 THEN Len(d.in) \div 2 ELSE plen)

\* decoder.Read(p) with len(p) = plen, the reader returning rd if asked.
hexDecoderRead(d, plen, rd) == hexDecoderCut(hexDecoderFill(d, rd), plen)

-----------------------------------------------------------------------------
(* Package base64: the stream encoder.                                     *)

\* len(e.out)
encoderOutLen == 1024

\* The error of an underlying writer that fails.
ErrWriter == <<"writer error">>

\* e.enc.Encode(e.out[:], src) and e.w.Write(e.out[:k]) in the call state
\* st = [e, p, n, sent, calls, returned]: sent collects what the writer
\* accepts, and the writer fails on call number fail of this call (never
\* if fail = 0).
encoderEmit(st, src, k, fail) ==
  IF st.calls + 1 = fail
  THEN [st EXCEPT !.calls = @ + 1, !.e.err = ErrWriter]
  ELSE [st EXCEPT
          !.calls = @ + 1,
          !.sent = @ \o SubSeq(Encode(st.e.enc, Rep(0, encoderOutLen), src), 1, k)]

\* After the write of the leading fringe: return on an error, else
\* e.nbuf = 0.
encoderFringeWritten(st) ==
  IF st.e.err # NoError THEN [st EXCEPT !.returned = TRUE]
  ELSE [st EXCEPT !.e.nbuf = 0]

\* The leading fringe once i bytes of p are copied to e.buf.
encoderFringeFilled(st, fail) ==
  IF st.e.nbuf < 3 THEN [st EXCEPT !.returned = TRUE]
  ELSE encoderFringeWritten(encoderEmit(st, st.e.buf, 4, fail))

\* "Leading fringe."
encoderFringe(st, fail) ==
  IF st.e.nbuf > 0
  THEN LET i == IF Len(st.p) < 3 - st.e.nbuf THEN Len(st.p) ELSE 3 - st.e.nbuf
       IN  encoderFringeFilled(
             [st EXCEPT !.e.buf = Put(@, st.e.nbuf, SubSeq(st.p, 1, i)),
                        !.e.nbuf = @ + i,
                        !.n = @ + i,
                        !.p = SubSeq(@, i + 1, Len(@))],
             fail)
  ELSE st

\* nn of the interior loop for len(p) = plen.
encoderChunk(plen) ==
  IF (encoderOutLen \div 4) * 3 > plen THEN plen - (plen % 3)
  ELSE (encoderOutLen \div 4) * 3

\* "Large interior chunks."
RECURSIVE encoderInterior(_, _)
\* After the write of nn bytes of p: return on an error, else go on.
encoderInteriorWritten(st, nn, fail) ==
  IF st.e.err # NoError THEN [st EXCEPT !.returned = TRUE]
  ELSE encoderInterior([st EXCEPT !.n = @ + nn,
                                  !.p = SubSeq(@, nn + 1, Len(@))], fail)

encoderInterior(st, fail) ==
  IF ~st.returned /\ Len(st.p) >= 3
  THEN encoderInteriorWritten(
         encoderEmit(st, SubSeq(st.p, 1, encoderChunk(Len(st.p))),
                     (encoderChunk(Len(st.p)) \div 3) * 4, fail),
         encoderChunk(Len(st.p)), fail)
  ELSE st

\* Fault for C24: the trailing fringe is counted but not copied to e.buf.
encoderTrailNotCopied(st) ==
  IF st.returned THEN st
  ELSE [st EXCEPT !.e.nbuf = Len(st.p), !.n = @ + Len(st.p), !.p = <<>>]

\* "Trailing fringe."
encoderTrail(st) ==
  IF st.returned THEN st
  ELSE [st EXCEPT !.e.buf = Put(@, 0, st.p),
                  !.e.nbuf = Len(st.p),
                  !.n = @ + Len(st.p),
                  !.p = <<>>]

\* e.Write(p); the result holds the encoder e afterwards, the returned n
\* and e.err (the returned error), and the bytes sent to the writer.
encoderWrite(e, p, fail) ==
  IF e.err # NoError
  THEN [e |-> e, p |-> p, n |-> 0, sent |-> <<>>, calls |-> 0, returned |-> TRUE]
  ELSE encoderTrail(encoderInterior(encoderFringe(
         [e |-> e, p |-> p, n |-> 0, sent |-> <<>>, calls |-> 0,
          returned |-> FALSE], fail), fail))

\* Fault for C16: Close leaves e.nbuf as it is.
encoderCloseKeepsBuffer(e, fail) ==
  IF e.err = NoError /\ e.nbuf > 0
  THEN encoderEmit(
         [e |-> e, p |-> <<>>, n |-> 0, sent |-> <<>>, calls |-> 0,
          returned |-> TRUE],
         SubSeq(e.buf, 1, e.nbuf), EncodedLen(e.enc, e.nbuf), fail)
  ELSE [e |-> e, p |-> <<>>, n |-> 0, sent |-> <<>>, calls |-> 0,
        returned |-> TRUE]

\* After the write of Close: e.nbuf = 0.
encoderClosed(st) == [st EXCEPT !.e.nbuf = 0]

\* e.Close(); the returned error is e.err of the result.
encoderClose(e, fail) ==
  IF e.err = NoError /\ e.nbuf > 0
  THEN encoderClosed(encoderEmit(
         [e |-> e, p |-> <<>>, n |-> 0, sent |-> <<>>, calls |-> 0,
          returned |-> TRUE],
         SubSeq(e.buf, 1, e.nbuf), EncodedLen(e.enc, e.nbuf), fail))
  ELSE [e |-> e, p |-> <<>>, n |-> 0, sent |-> <<>>, calls |-> 0,
        returned |-> TRUE]

-----------------------------------------------------------------------------
(* Package base64: the stream decoder.                                     *)

\* len(d.buf)
decoderBufLen == 1024

\* len(d.outbuf)
decoderOutLen == (1024 \div 4) * 3

\* nn of the refill loop for len(p) = plen.
decoderWant(plen) ==
  IF (plen \div 3) * 4 < 4 THEN 4
  ELSE IF (plen \div 3) * 4 > decoderBufLen THEN decoderBufLen
  ELSE (plen \div 3) * 4

\* "Refill buffer": every <<decoder, rest of the reader's bytes>> the loop
\* can end in for a decoder d = [err, readErr, enc, buf, nbuf, out], buf
\* holding the nbuf buffered characters.  A reader that returns no byte and
\* no error is asked again.
RECURSIVE decoderRefill(_, _, _)
decoderRefill(d, rest, plen) ==
  IF d.nbuf < 4 /\ d.readErr = NoError
  THEN UNION {decoderRefill([d EXCEPT !.buf = @ \o rd.data,
                                      !.nbuf = @ + Len(rd.data),
                                      !.readErr = rd.err],
                            SubSeq(rest, Len(rd.data) + 1, Len(rest)), plen) :
                rd \in {x \in ReaderReads(rest, decoderWant(plen) - d.nbuf) :
                          Len(x.data) > 0 \/ x.err # NoError}}
  ELSE {<<d, rest>>}

\* d.out = d.outbuf[:nw]; n = copy(p, d.out); d.out = d.out[n:] for the
\* nw bytes decoded, with len(p) = plen; the result of Read is completed by
\* the caller.
decoderCopyOut(d, decoded, plen) ==
  [d |-> [d EXCEPT !.out = SubSeq(decoded,
                      (IF plen < Len(decoded) THEN plen ELSE Len(decoded)) + 1,
                      Len(decoded))],
   bytes |-> SubSeq(decoded, 1,
                    IF plen < Len(decoded) THEN plen ELSE Len(decoded)),
   n |-> IF plen < Len(decoded) THEN plen ELSE Len(decoded),
   err |-> NoError]

\* "Use leftover decoded output from last read."
decoderLeftover(d, plen) == decoderCopyOut(d, d.out, plen)

\* d.err = d.readErr, io.ErrUnexpectedEOF in place of io.EOF when
\* characters are still buffered; return 0, d.err.
decoderEnd(d) ==
  [d |-> [d EXCEPT !.err = IF d.readErr = EOF /\ d.nbuf > 0
                           THEN ErrUnexpectedEOF ELSE d.readErr],
   bytes |-> <<>>, n |-> 0,
   err |-> IF d.readErr = EOF /\ d.nbuf > 0
           THEN ErrUnexpectedEOF ELSE d.readErr]

\* The two returns after the final fragment is copied out (r), and the
\* fall through to the end of the stream.
decoderFragmentCopied(r, plen) ==
  IF r.n > 0 \/ (plen = 0 /\ Len(r.d.out) > 0) THEN r
  ELSE IF r.d.err # NoError THEN [r EXCEPT !.err = r.d.err]
  ELSE decoderEnd(r.d)

\* "Decode final fragment, without padding" for the result dec of Decode.
decoderFragmentDecoded(d, dec, plen) ==
  decoderFragmentCopied(
    decoderCopyOut([d EXCEPT !.err = dec.err, !.nbuf = 0, !.buf = <<>>],
                   SubSeq(dec.dst, 1, dec.n), plen),
    plen)

\* if d.nbuf < 4 { ... }
decoderShort(d, plen) ==
  IF d.enc.padChar = NoPadding /\ d.nbuf > 0
  THEN decoderFragmentDecoded(d,
         Decode(d.enc, Rep(0, decoderOutLen), SubSeq(d.buf, 1, d.nbuf)), plen)
  ELSE decoderEnd(d)

\* d.nbuf -= nr; copy(d.buf[:d.nbuf], d.buf[nr:]); return n, d.err
decoderShift(r, nr) ==
  [r EXCEPT !.d.nbuf = @ - nr,
            !.d.buf = SubSeq(@, nr + 1, Len(@)),
            !.err = r.d.err]

\* "Decode chunk into p, or d.out and then p if p is too small", for the
\* result dec of Decode.
decoderChunkDecoded(d, dec, nr, nw, plen) ==
  decoderShift(
    IF nw > plen
    THEN decoderCopyOut([d EXCEPT !.err = dec.err],
                        SubSeq(dec.dst, 1, dec.n), plen)
    ELSE [d |-> [d EXCEPT !.err = dec.err],
          bytes |-> SubSeq(dec.dst, 1, dec.n), n |-> dec.n, err |-> dec.err],
    nr)

decoderChunk(d, nr, nw, plen) ==
  decoderChunkDecoded(d,
    Decode(d.enc, IF nw > plen THEN Rep(0, decoderOutLen) ELSE Fill(plen),
           SubSeq(d.buf, 1, nr)),
    nr, nw, plen)

\* decoder.Read after the refill loop.
decoderRefilled(d, plen) ==
  IF d.nbuf < 4 THEN decoderShort(d, plen)
  ELSE decoderChunk(d, (d.nbuf \div 4) * 4, (d.nbuf \div 4) * 3, plen)

\* decoder.Read(p) with len(p) = plen over a reader that still has the
\* bytes rest: every <<result, rest afterwards>>.
decoderRead(d, rest, plen) ==
  IF Len(d.out) > 0 THEN {<<decoderLeftover(d, plen), rest>>}
  ELSE IF d.err # NoError
  THEN {<<[d |-> d, bytes |-> <<>>, n |-> 0, err |-> d.err], rest>>}
  ELSE {<<decoderRefilled(f[1], plen), f[2]>> : f \in decoderRefill(d, rest, plen)}

-----------------------------------------------------------------------------
(* Package hex: the stream encoder.                                        *)

\* Fault for C19: the count of the writer is added unhalved.
hexEncoderCountBytes(n, written) == n + written

\* n += written / 2
hexEncoderCount(n, written) == n + written \div 2

\* chunkSize := bufferSize / 2; if len(p) < chunkSize { chunkSize = len(p) }
hexEncoderChunkSize(p) ==
  IF Len(p) < bufferSize \div 2 THEN Len(p) ELSE bufferSize \div 2

\* written, e.err = e.w.Write(b) on call number call of this Write: the
\* writer takes all of b, or on call number fail at most short bytes of it
\* and reports an error (never if fail = 0).
hexWriterWrite(b, call, fail, short) ==
  IF call = fail
  THEN [written |-> IF short < Len(b) THEN short ELSE Len(b) - 1,
        err |-> ErrWriter]
  ELSE [written |-> Len(b), err |-> NoError]

\* The end of one pass of the loop in the call state st = [e, p, n, sent,
\* lens, writes]: b is e.out[:encoded], w what the writer returned; sent
\* collects what the writer took, lens and writes the length of b and the
\* count the writer reported, per call.
hexEncoderWritten(st, chunkSize, b, w) ==
  [e |-> [st.e EXCEPT !.err = w.err],
   p |-> SubSeq(st.p, chunkSize + 1, Len(st.p)),
   n |-> hexEncoderCount(st.n, w.written),
   sent |-> st.sent \o SubSeq(b, 1, w.written),
   lens |-> Append(st.lens, Len(b)),
   writes |-> Append(st.writes, w.written)]

\* encoded := Encode(e.out[:], p[:chunkSize]) and the write of
\* e.out[:encoded].
hexEncoderEncoded(st, chunkSize, r, fail, short) ==
  hexEncoderWritten(st, chunkSize, SubSeq(r.dst, 1, r.n),
    hexWriterWrite(SubSeq(r.dst, 1, r.n), Len(st.writes) + 1, fail, short))

hexEncoderChunk(st, chunkSize, fail, short) ==
  hexEncoderEncoded(st, chunkSize,
    HexEncode(Rep(0, bufferSize), SubSeq(st.p, 1, chunkSize)), fail, short)

\* for len(p) > 0 && e.err == nil { ... }
RECURSIVE hexEncoderLoop(_, _, _)
hexEncoderLoop(st, fail, short) ==
  IF Len(st.p) > 0 /\ st.e.err = NoError
  THEN hexEncoderLoop(
         hexEncoderChunk(st, hexEncoderChunkSize(st.p), fail, short),
         fail, short)
  ELSE st

\* encoder.Write(p): the call state at the return of n, e.err.
hexEncoderWrite(e, p, fail, short) ==
  hexEncoderLoop([e |-> e, p |-> p, n |-> 0, sent |-> <<>>, lens |-> <<>>,
                  writes |-> <<>>], fail, short)

-----------------------------------------------------------------------------
(* Package base64: NewlineFilteringReader.                                 *)

\* Fault for C18: only '\r' is tested.
isNewlineCROnly(b) == ConstantTimeByteEq(b, 13)

\* v := ConstantTimeByteEq(b, '\r') | ConstantTimeByteEq(b, '\n')
isNewline(b) == Or8(ConstantTimeByteEq(b, 13), ConstantTimeByteEq(b, 10))

\* for _, b := range p[:n] { p[offset] = b; offset += v ^ 1 }, from the
\* 1-based index i on; st = [p, offset].
RECURSIVE newlineFilterLoop(_, _, _)
newlineFilterLoop(st, k, i) ==
  IF i > k THEN st
  ELSE newlineFilterLoop(
         [p |-> [st.p EXCEPT ![st.offset + 1] = st.p[i]],
          offset |-> st.offset + Xor8(isNewline(st.p[i]), 1)],
         k, i + 1)

\* newlineFilteringReader.Read(p) for the buffer pbuf: every result
\* [bytes, n, err, rest, last] it can end in when the underlying reader still
\* has the bytes rest; rd is what r.r.Read(p) returned last.
RECURSIVE newlineRead(_, _, _)
newlineFiltered(pbuf, rest, rd, st) ==
  IF st.offset > 0
  THEN {[bytes |-> SubSeq(st.p, 1, st.offset), n |-> st.offset, err |-> rd.err,
         rest |-> rest, last |-> Len(rd.data)]}
  ELSE UNION {newlineRead(st.p, SubSeq(rest, Len(nx.data) + 1, Len(rest)), nx) :
                nx \in ReaderReads(rest, Len(pbuf))}

newlineRead(pbuf, rest, rd) ==
  IF Len(rd.data) > 0
  THEN newlineFiltered(pbuf, rest, rd,
         newlineFilterLoop([p |-> Put(pbuf, 0, rd.data), offset |-> 0],
                           Len(rd.data), 1))
  ELSE {[bytes |-> <<>>, n |-> 0, err |-> rd.err, rest |-> rest, last |-> 0]}

\* The first n, err := r.r.Read(p) and the loop.
newlineFilteringRead(pbuf, rest) ==
  UNION {newlineRead(pbuf, SubSeq(rest, Len(rd.data) + 1, Len(rest)), rd) :
           rd \in ReaderReads(rest, Len(pbuf))}

-----------------------------------------------------------------------------
(* Block encoding followed by decoding of what was encoded.                *)

\* Sources end in every string over PlainBytes of at most MaxPlainTail bytes.
MaxPlainTail == 4

\* 0x00, 0xfb, 0xff.
PlainBytes == {0, 251, 255}

\* Six bytes holding the sextets 0, 26, 52, 62, 63, 25, 51, 61; sources of
\* 8 bytes and more take the 8-byte path of the encoder.
PlainGroup == <<1, 173, 62, 253, 156, 253>>

PlainInputs ==
  {p \o t : p \in {<<>>, PlainGroup, PlainGroup \o PlainGroup},
            t \in Strings(PlainBytes, MaxPlainTail)}

InitEncode ==
  /\ pc = "start"
  /\ enc \in CanonicalEncodings
  /\ input \in PlainInputs
  /\ \E k \in DstSlack : output = Fill(EncodedLen(enc, Len(input)) + k)
  /\ back = <<>>
  /\ cnt = 0
  /\ err = NoError
  /\ NoCompare

\* enc.Encode(output, input)
EncodeCall ==
  /\ pc = "start"
  /\ output' = Encode(enc, output, input)
  /\ pc' = "Encode"
  /\ UNCHANGED <<enc, input, back, cnt, err, cmpx, cmpy, ret>>

\* cnt, err := enc.Decode(back, dst[:enc.EncodedLen(len(src))]), with back as
\* long as output is beyond the encoded length.
DecodeBackCall ==
  /\ pc = "Encode"
  /\ \E text \in {SubSeq(output, 1, EncodedLen(enc, Len(input)))} :
     \E r \in {Decode(enc,
                      Fill(DecodedLen(enc, Len(text)) + Len(output) - Len(text)),
                      text)} :
       /\ back' = r.dst
       /\ cnt' = r.n
       /\ err' = r.err
  /\ pc' = "DecodeBack"
  /\ UNCHANGED <<enc, input, output, cmpx, cmpy, ret>>

NextEncode == EncodeCall \/ DecodeBackCall

SpecEncode == InitEncode /\ [][NextEncode]_vars

-----------------------------------------------------------------------------
(* Block decoding of arbitrary input.                                      *)

\* Inputs end in every string over TextChars of at most MaxTextTail bytes.
MaxTextTail == 5

\* 'A', '=', '?'.
TextChars == {65, 61, 63}

\* Leading groups: none, "aGVs", "a-Vs" ('-' is of the URL alphabet only),
\* "a+Vs" ('+' is of the standard alphabet only) and "a?Vs".
TextGroups ==
  {<<>>, <<97, 71, 86, 115>>, <<97, 45, 86, 115>>, <<97, 43, 86, 115>>,
   <<97, 63, 86, 115>>}

\* "aGVsb?8=", the example of the package documentation.
DocExample == <<97, 71, 86, 115, 98, 63, 56, 61>>

TextInputs ==
  {p \o t : p \in TextGroups, t \in Strings(TextChars, MaxTextTail)}
    \cup {DocExample}

InitDecode ==
  /\ pc = "start"
  /\ enc \in CanonicalEncodings
  /\ input \in TextInputs
  /\ \E k \in DstSlack : output = Fill(DecodedLen(enc, Len(input)) + k)
  /\ back = <<>>
  /\ cnt = 0
  /\ err = NoError
  /\ NoCompare

\* cnt, err := enc.Decode(output, input)
DecodeCall ==
  /\ pc = "start"
  /\ \E r \in {Decode(enc, output, input)} :
       /\ output' = r.dst
       /\ cnt' = r.n
       /\ err' = r.err
  /\ pc' = "Decode"
  /\ UNCHANGED <<enc, input, back, cmpx, cmpy, ret>>

NextDecode == DecodeCall

SpecDecode == InitDecode /\ [][NextDecode]_vars

-----------------------------------------------------------------------------
(* Package hex: block encoding and decoding.                               *)

MaxHexLen == 3

\* '0', 'a', 'F', 'g'.
HexChars == {48, 97, 70, 103}

\* Every string over HexChars of at most MaxHexLen bytes, every single
\* byte, every byte before and after a valid digit, and HexMixed.
\* "0g?", "?0gF" and "g?": two different invalid bytes in one input.
HexMixed == {<<48, 103, 63>>, <<63, 48, 103, 70>>, <<103, 63>>}

HexInputs ==
  Strings(HexChars, MaxHexLen)
    \cup {<<b>> : b \in 0..255}
    \cup {<<b, 97>> : b \in 0..255}
    \cup {<<70, b>> : b \in 0..255}
    \cup HexMixed

InitHex ==
  /\ pc = "start"
  /\ enc = "hex"
  /\ input \in HexInputs
  /\ output = <<>>
  /\ back = <<>>
  /\ cnt = 0
  /\ err = NoError
  /\ NoCompare

\* cnt := hex.Encode(output, input), output having EncodedLen(len(input))
\* bytes or more.
HexEncodeCall ==
  /\ pc = "start"
  /\ \E k \in DstSlack :
     \E r \in {HexEncode(Fill(2 * Len(input) + k), input)} :
       /\ output' = r.dst
       /\ cnt' = r.n
  /\ pc' = "HexEncode"
  /\ UNCHANGED <<enc, input, back, err, cmpx, cmpy, ret>>

\* cnt, err := hex.Decode(back, output[:cnt]) after an encoding.
HexDecodeBackCall ==
  /\ pc = "HexEncode"
  /\ \E r \in {HexDecode(Fill(Len(output) - Len(input)),
                         SubSeq(output, 1, cnt))} :
       /\ back' = r.dst
       /\ cnt' = r.n
       /\ err' = r.err
  /\ pc' = "HexDecodeBack"
  /\ UNCHANGED <<enc, input, output, cmpx, cmpy, ret>>

\* cnt, err := hex.Decode(output, input), output having DecodedLen(len(input))
\* bytes or more.
HexDecodeCall ==
  /\ pc = "start"
  /\ \E k \in DstSlack :
     \E r \in {HexDecode(Fill((Len(input) \div 2) + k), input)} :
       /\ output' = r.dst
       /\ cnt' = r.n
       /\ err' = r.err
  /\ pc' = "HexDecode"
  /\ UNCHANGED <<enc, input, back, cmpx, cmpy, ret>>

NextHex == HexEncodeCall \/ HexDecodeBackCall \/ HexDecodeCall

SpecHex == InitHex /\ [][NextHex]_vars

-----------------------------------------------------------------------------
(* Package subtle: big-endian comparison.                                  *)

MaxCmpLen == 3

CmpBytes == {0, 1, 128, 255}

InitCompare ==
  /\ pc = "start"
  /\ enc = "subtle"
  /\ input = <<>>
  /\ output = <<>>
  /\ back = <<>>
  /\ cnt = 0
  /\ err = NoError
  /\ cmpx \in Strings(CmpBytes, MaxCmpLen)
  /\ cmpy \in {t \in Strings(CmpBytes, MaxCmpLen) :
                 Len(t) \in {Len(cmpx), Len(cmpx) + 1}}
  /\ ret = 0

\* ret := ConstantTimeBigEndianLessOrEq(cmpx, cmpy)
BigEndianLessOrEqCall ==
  /\ pc = "start"
  /\ ret' = ConstantTimeBigEndianLessOrEq(cmpx, cmpy)
  /\ pc' = "BigEndianLessOrEq"
  /\ UNCHANGED <<enc, input, output, back, cnt, err, cmpx, cmpy>>

NextCompare == BigEndianLessOrEqCall

SpecCompare == InitCompare /\ [][NextCompare]_vars

-----------------------------------------------------------------------------
(* Strict and non-strict decoding of the same input.                       *)

MaxStrictTail == 4

\* 'A' (sextet 0), 'Q' (16), 'B' (1), '-' (62 of the URL alphabet), '='.
StrictChars == {65, 81, 66, 45, 61}

\* Nothing or the full group "AAAA", then every string over StrictChars of
\* at most MaxStrictTail bytes.
StrictInputs ==
  {p \o t : p \in {<<>>, <<65, 65, 65, 65>>},
            t \in Strings(StrictChars, MaxStrictTail)}

InitStrict ==
  /\ pc = "start"
  /\ enc \in CanonicalEncodings
  /\ input \in StrictInputs
  /\ output = Fill(DecodedLen(enc, Len(input)))
  /\ back = Fill(DecodedLen(enc, Len(input)))
  /\ cnt = 0
  /\ err = NoError
  /\ cmpx = <<>>
  /\ cmpy = <<>>
  /\ ret = <<0, NoError>>

\* cnt, err := enc.Strict().Decode(output, input)
StrictDecodeCall ==
  /\ pc = "start"
  /\ \E r \in {Decode(Strict(enc), output, input)} :
       /\ output' = r.dst
       /\ cnt' = r.n
       /\ err' = r.err
  /\ pc' = "StrictDecode"
  /\ UNCHANGED <<enc, input, back, cmpx, cmpy, ret>>

\* ret := enc.Decode(back, input), the count and the error as a pair.
LaxDecodeCall ==
  /\ pc = "StrictDecode"
  /\ \E r \in {Decode(enc, back, input)} :
       /\ back' = r.dst
       /\ ret' = <<r.n, r.err>>
  /\ pc' = "LaxDecode"
  /\ UNCHANGED <<enc, input, output, cnt, err, cmpx, cmpy>>

NextStrict == StrictDecodeCall \/ LaxDecodeCall

SpecStrict == InitStrict /\ [][NextStrict]_vars

-----------------------------------------------------------------------------
(* Construction of an Encoding with another padding character.             *)

\* The runes tried: NoPadding and another negative rune, every byte, and
\* runes above 0xff whose low byte is a character of the alphabets.
MaxPadRune == 321

PadRunes == {NoPadding, NoPadding - 1} \cup (0..MaxPadRune)

InitPadding ==
  /\ pc = "start"
  /\ enc \in CanonicalEncodings \cup {Strict(e) : e \in CanonicalEncodings}
  /\ input \in PadRunes
  /\ output = <<>>
  /\ back = <<>>
  /\ cnt = 0
  /\ err = NoError
  /\ NoCompare

\* output := enc.WithPadding(input), as a one-element sequence; the receiver
\* is passed by value.
WithPaddingCall ==
  /\ pc = "start"
  /\ \E r \in {WithPadding(enc, input)} :
       /\ output' = r.ret
       /\ pc' = IF r.panic # "" THEN "panic" ELSE "WithPadding"
  /\ UNCHANGED <<enc, input, back, cnt, err, cmpx, cmpy, ret>>

NextPadding == WithPaddingCall

SpecPadding == InitPadding /\ [][NextPadding]_vars

-----------------------------------------------------------------------------
(* Two block decodings of equally long inputs into equally long buffers.   *)

MaxShapeTail == 4

\* 'A', '=', '?'.
ShapeChars == {65, 61, 63}

ShapeInputs ==
  {p \o t : p \in TextGroups, t \in Strings(ShapeChars, MaxShapeTail)}

\* The input of the second run: as long as the first, all 'A' or all '='.
ShapeSeconds(k) == {AsSeq([i \in 1..k |-> b]) : b \in {65, 61}}

InitShape ==
  /\ pc = "start"
  /\ enc \in CanonicalEncodings
  /\ input \in ShapeInputs
  /\ cmpx \in ShapeSeconds(Len(input))
  /\ \E k \in DstSlack : /\ output = Fill(DecodedLen(enc, Len(input)) + k)
                         /\ back = output
  /\ cnt = 0
  /\ err = NoError
  /\ cmpy = <<>>
  /\ ret = <<>>

\* cnt, err := enc.Decode(output, input), then
\* cmpy := enc.Decode(back, cmpx); ret collects the traces of the runs.
TracedDecodeCall ==
  /\ pc \in {"start", "first"}
  /\ \E r \in {TraceDecode(enc, IF pc = "start" THEN output ELSE back,
                           IF pc = "start" THEN input ELSE cmpx)} :
       /\ ret' = Append(ret, [trace |-> r.trace, n |-> r.res.n])
       /\ IF pc = "start"
          THEN /\ output' = r.res.dst
               /\ cnt' = r.res.n
               /\ err' = r.res.err
               /\ UNCHANGED <<back, cmpy>>
          ELSE /\ back' = r.res.dst
               /\ cmpy' = <<r.res.n, r.res.err>>
               /\ UNCHANGED <<output, cnt, err>>
  /\ pc' = IF pc = "start" THEN "first" ELSE "second"
  /\ UNCHANGED <<enc, input, cmpx>>

NextShape == TracedDecodeCall

SpecShape == InitShape /\ [][NextShape]_vars

-----------------------------------------------------------------------------
(* Package subtle: comparison of two bytes.                                *)

InitByteCompare ==
  /\ pc = "start"
  /\ enc = "subtle"
  /\ input = <<>>
  /\ output = <<>>
  /\ back = <<>>
  /\ cnt = 0
  /\ err = NoError
  /\ cmpx \in {<<b>> : b \in 0..255}
  /\ cmpy \in {<<b>> : b \in 0..255}
  /\ ret = 0

\* ret := ConstantTimeByteGreater(cmpx[0], cmpy[0])
ByteGreaterCall ==
  /\ pc = "start"
  /\ ret' = ConstantTimeByteGreater(cmpx[1], cmpy[1])
  /\ pc' = "ByteGreater"
  /\ UNCHANGED <<enc, input, output, back, cnt, err, cmpx, cmpy>>

\* cnt := ConstantTimeByteLessOrEq(cmpx[0], cmpy[0])
ByteLessOrEqCall ==
  /\ pc = "ByteGreater"
  /\ cnt' = ConstantTimeByteLessOrEq(cmpx[1], cmpy[1])
  /\ pc' = "ByteLessOrEq"
  /\ UNCHANGED <<enc, input, output, back, err, cmpx, cmpy, ret>>

NextByteCompare == ByteGreaterCall \/ ByteLessOrEqCall

SpecByteCompare == InitByteCompare /\ [][NextByteCompare]_vars

-----------------------------------------------------------------------------
(* Package hex: reading from the stream decoder until the stream ends.     *)

MaxHexStreamLen == 5

\* The longest p handed to decoder.Read.
MaxHexReadLen == 2

\* '1', 'f', 'g'.
HexStreamChars == {49, 102, 103}

\* The streams: every string over HexStreamChars, and 'h', a second byte
\* that is no hex character, with up to two of '1' and 'g' on either side.
HexStreams ==
  Strings(HexStreamChars, MaxHexStreamLen)
    \cup {a \o <<104>> \o b : a \in Strings({49, 103}, 2),
                              b \in Strings({49, 103}, 2)}

InitHexStream ==
  /\ pc = "start"
  /\ enc = [in |-> <<>>, err |-> NoError]
  /\ back \in HexStreams
  /\ input = back
  /\ output = <<>>
  /\ cnt = 0
  /\ err = NoError
  /\ NoCompare

\* cnt, err := d.Read(p): enc is the decoder, input what the underlying
\* reader has not returned yet, output the bytes delivered so far.
HexDecoderReadCall ==
  /\ \E plen \in 0..MaxHexReadLen :
     \E rd \in IF Len(enc.in) < 2 /\ enc.err = NoError
               THEN ReaderReads(input, bufferSize - Len(enc.in))
               ELSE {[data |-> <<>>, err |-> NoError]} :
     \E r \in {hexDecoderRead(enc, plen, rd)} :
       /\ enc' = r.d
       /\ output' = output \o r.bytes
       /\ cnt' = r.n
       /\ err' = r.err
       /\ input' = SubSeq(input, Len(rd.data) + 1, Len(input))
  /\ pc' = "decoder.Read"
  /\ UNCHANGED <<back, cmpx, cmpy, ret>>

NextHexStream == HexDecoderReadCall

SpecHexStream == InitHexStream /\ [][NextHexStream]_vars

-----------------------------------------------------------------------------
(* Package base64: writing to the stream encoder and closing it.           *)

\* The bytes written in all by short Writes.
MaxEncoderBytes == 8

\* The longest short p.
MaxWriteLen == 5

\* The bytes the caller writes, in order: PlainGroup over and over.
EncoderStream(k) == AsSeq([i \in 1..k |-> PlainGroup[((i - 1) % 6) + 1]])

\* The next p: up to MaxWriteLen bytes while no more than MaxEncoderBytes
\* are written in all, or after two bytes a p longer than one interior
\* chunk of len(e.out)/4*3 bytes.
EncoderWrites(written) ==
  {SubSeq(EncoderStream(written + k), written + 1, written + k) :
     k \in {j \in 0..MaxWriteLen : written + j <= MaxEncoderBytes}
            \cup (IF written = 2 THEN {(encoderOutLen \div 4) * 3 + 2} ELSE {})}

InitEncoder ==
  /\ pc = "start"
  /\ \E e \in CanonicalEncodings :
       enc = [err |-> NoError, enc |-> e, buf |-> <<0, 0, 0>>, nbuf |-> 0]
  /\ input = <<>>
  /\ output = <<>>
  /\ back = <<>>
  /\ cnt = 0
  /\ err = NoError
  /\ NoCompare

\* cnt, err := e.Write(back): enc is the encoder, input all bytes handed to
\* Write so far, output all bytes the writer accepted so far, ret the
\* number of Close calls.
EncoderWriteCall ==
  /\ ret = 0
  /\ \E q \in EncoderWrites(Len(input)) :
     \E fail \in 0..2 :
     \E r \in {encoderWrite(enc, q, fail)} :
       /\ enc' = r.e
       /\ input' = input \o q
       /\ back' = q
       /\ output' = output \o r.sent
       /\ cnt' = r.n
       /\ err' = r.e.err
  /\ pc' = "encoder.Write"
  /\ UNCHANGED <<cmpx, cmpy, ret>>

\* err := e.Close()
EncoderCloseCall ==
  /\ ret < 2
  /\ \E fail \in 0..1 :
     \E r \in {encoderClose(enc, fail)} :
       /\ enc' = r.e
       /\ output' = output \o r.sent
       /\ err' = r.e.err
  /\ ret' = ret + 1
  /\ pc' = "encoder.Close"
  /\ UNCHANGED <<input, back, cnt, cmpx, cmpy>>

NextEncoder == EncoderWriteCall \/ EncoderCloseCall

SpecEncoder == InitEncoder /\ [][NextEncoder]_vars

-----------------------------------------------------------------------------
(* Package base64: reading from the stream decoder until the stream ends.  *)

\* The stream ends in every string over B64StreamChars of at most
\* MaxB64StreamTail characters.
MaxB64StreamTail == 3

\* The longest p handed to decoder.Read.
MaxB64ReadLen == 6

\* 'A', 'Q', '-' (of the URL alphabet only).
B64StreamChars == {65, 81, 45}

\* "AA==", "AA==AA==" and "AA==AQAQ": padding that ends the stream and
\* padding followed by a further group.
B64PaddedStreams ==
  {<<65, 65, 61, 61>>,
   <<65, 65, 61, 61, 65, 65, 61, 61>>,
   <<65, 65, 61, 61, 65, 81, 65, 81>>}

\* Nothing, "AQAQ" or "A-AQ", then the tail; or a stream with padding.
B64Streams ==
  {g \o t : g \in {<<>>, <<65, 81, 65, 81>>, <<65, 45, 65, 81>>},
            t \in Strings(B64StreamChars, MaxB64StreamTail)}
    \cup B64PaddedStreams

InitB64Stream ==
  /\ pc = "start"
  /\ \E e \in CanonicalEncodings :
       enc = [err |-> NoError, readErr |-> NoError, enc |-> e, buf |-> <<>>,
              nbuf |-> 0, out |-> <<>>]
  /\ back \in B64Streams
  /\ input = back
  /\ output = <<>>
  /\ cnt = 0
  /\ err = NoError
  /\ NoCompare

\* cnt, err := d.Read(p): enc is the decoder, input what the underlying
\* reader has not returned yet, output the bytes delivered so far.
B64DecoderReadCall ==
  /\ \E plen \in 0..MaxB64ReadLen :
     \E r \in decoderRead(enc, input, plen) :
       /\ enc' = r[1].d
       /\ output' = output \o r[1].bytes
       /\ cnt' = r[1].n
       /\ err' = r[1].err
       /\ input' = r[2]
  /\ pc' = "decoder.Read"
  /\ UNCHANGED <<back, cmpx, cmpy, ret>>

NextB64Stream == B64DecoderReadCall

SpecB64Stream == InitB64Stream /\ [][NextB64Stream]_vars

-----------------------------------------------------------------------------
(* Package base64: reading through a NewlineFilteringReader.               *)

MaxNewlineStreamLen == 5

\* The longest p handed to Read.
MaxNewlineReadLen == 3

\* 'A', 'b', '\r', '\n'.
NewlineChars == {65, 98, 13, 10}

InitNewline ==
  /\ pc = "start"
  /\ enc = "newlineFilteringReader"
  /\ back \in Strings(NewlineChars, MaxNewlineStreamLen)
  /\ input = back
  /\ output = <<>>
  /\ cnt = 0
  /\ err = NoError
  /\ NoCompare

\* cnt, err := r.Read(p): input is what the underlying reader has not
\* returned yet, output the bytes delivered so far, ret the byte count of
\* the last underlying read.
NewlineReadCall ==
  /\ \E plen \in 0..MaxNewlineReadLen :
     \E r \in newlineFilteringRead(Fill(plen), input) :
       /\ output' = output \o r.bytes
       /\ cnt' = r.n
       /\ err' = r.err
       /\ input' = r.rest
       /\ ret' = r.last
  /\ pc' = "newlineFilteringReader.Read"
  /\ UNCHANGED <<enc, back, cmpx, cmpy>>

NextNewline == NewlineReadCall

SpecNewline == InitNewline /\ [][NextNewline]_vars

-----------------------------------------------------------------------------
(* Package hex: writing to the stream encoder.                             *)

\* The bytes written in all by short Writes.
MaxHexEncoderBytes == 5

\* The longest short p.
MaxHexWriteLen == 3

\* The most bytes the writer takes of a write it fails.
MaxShortWrite == 3

\* The next p: up to MaxHexWriteLen bytes while no more than
\* MaxHexEncoderBytes are written in all, or after one byte a p of two
\* full chunks of bufferSize/2 bytes and one byte more.
HexEncoderWrites(written) ==
  {SubSeq(EncoderStream(written + k), written + 1, written + k) :
     k \in {j \in 0..MaxHexWriteLen : written + j <= MaxHexEncoderBytes}
            \cup (IF written = 1 THEN {bufferSize + 1} ELSE {})}

InitHexEncoder ==
  /\ pc = "start"
  /\ enc = [err |-> NoError]
  /\ input = <<>>
  /\ output = <<>>
  /\ back = <<>>
  /\ cnt = 0
  /\ err = NoError
  /\ cmpx = <<>>
  /\ cmpy = <<>>
  /\ ret = 0

\* cnt, err := e.Write(back): enc is the encoder, input all bytes handed to
\* Write so far, output all bytes the writer took so far, cmpx the lengths
\* of the writes to the underlying writer in this call, cmpy the counts it
\* reported, ret the number of the writer call that failed.
HexEncoderWriteCall ==
  /\ \E q \in HexEncoderWrites(Len(input)) :
     \E fail \in 0..3 :
     \E short \in 0..MaxShortWrite :
     \E r \in {hexEncoderWrite(enc, q, fail, short)} :
       /\ enc' = r.e
       /\ input' = input \o q
       /\ back' = q
       /\ output' = output \o r.sent
       /\ cnt' = r.n
       /\ err' = r.e.err
       /\ cmpx' = r.lens
       /\ cmpy' = r.writes
       /\ ret' = fail
  /\ pc' = "encoder.Write"

NextHexEncoder == HexEncoderWriteCall

SpecHexEncoder == InitHexEncoder /\ [][NextHexEncoder]_vars

-----------------------------------------------------------------------------
(* Package base64: the lookups of the two alphabets.                       *)

\* The strides of a group of sextets are 16 * (c \div 64) + j for a byte c
\* and j in 0..MaxStrideStep.
MaxStrideStep == 15

\* w sextets: the first is c % 64, each next one is the stride further.
Sextets(c, j, w) ==
  AsSeq([k \in 1..w |-> ((c % 64) + (k - 1) * (16 * (c \div 64) + j)) % 64])

\* The three bytes holding the four sextets q, the first in the top bits.
PackSextets(q) ==
  <<q[1] * 4 + q[2] \div 16,
    (q[2] % 16) * 16 + q[3] \div 4,
    (q[3] % 4) * 64 + q[4]>>

\* The bits of u the SWAR lookups are to ignore: all clear or all set.
LowBytes == {0, 255}

InitLookup ==
  /\ pc = "start"
  /\ enc = "std"
  /\ input \in {<<c>> : c \in 0..255}
  /\ output = <<>>
  /\ back = <<>>
  /\ cnt = 0
  /\ err = NoError
  /\ NoCompare

\* ret = stdRevLookup(uint(input[0]))
StdRevLookupCall ==
  /\ pc = "start"
  /\ ret' = stdRevLookup(input[1])
  /\ pc' = "stdRevLookup"
  /\ UNCHANGED <<enc, input, output, back, cnt, err, cmpx, cmpy>>

\* output[0] = stdLookup(uint(input[0])) for a 6-bit value.
StdLookupCall ==
  /\ pc = "start"
  /\ input[1] < 64
  /\ output' = <<stdLookup(input[1])>>
  /\ pc' = "stdLookup"
  /\ UNCHANGED <<enc, input, back, cnt, err, cmpx, cmpy, ret>>

\* ret = stdRevLookup(uint(output[0])) for the character stdLookup gave.
StdLookupBackCall ==
  /\ pc = "stdLookup"
  /\ ret' = stdRevLookup(output[1])
  /\ pc' = "stdRevLookup(stdLookup)"
  /\ UNCHANGED <<enc, input, output, back, cnt, err, cmpx, cmpy>>

\* ret = urlRevLookup(uint(input[0]))
UrlRevLookupCall ==
  /\ pc = "start"
  /\ ret' = urlRevLookup(input[1])
  /\ pc' = "urlRevLookup"
  /\ UNCHANGED <<enc, input, output, back, cnt, err, cmpx, cmpy>>

\* output[0] = urlLookup(uint(input[0])) for a 6-bit value.
UrlLookupCall ==
  /\ pc = "start"
  /\ input[1] < 64
  /\ output' = <<urlLookup(input[1])>>
  /\ pc' = "urlLookup"
  /\ UNCHANGED <<enc, input, back, cnt, err, cmpx, cmpy, ret>>

\* ret = urlRevLookup(uint(output[0])) for the character urlLookup gave.
UrlLookupBackCall ==
  /\ pc = "urlLookup"
  /\ ret' = urlRevLookup(output[1])
  /\ pc' = "urlRevLookup(urlLookup)"
  /\ UNCHANGED <<enc, input, output, back, cnt, err, cmpx, cmpy>>

\* v := stdLookupSWAR3(u<<8 | b) or urlLookupSWAR3(u<<8 | b) for the group
\* u of the four sextets back; output holds the lanes of v, the lowest
\* first, and cmpx the byte b.
LookupSWAR3Call ==
  /\ pc = "start"
  /\ \E alpha \in {"std", "url"} :
     \E j \in 0..MaxStrideStep :
     \E b \in LowBytes :
     \E q \in {Sextets(input[1], j, 4)} :
       /\ back' = q
       /\ cmpx' = <<b>>
       /\ output' = SWAR3Of(alpha, BE(PackSextets(q) \o <<b>>))
       /\ pc' = IF alpha = "std" THEN "stdLookupSWAR3" ELSE "urlLookupSWAR3"
  /\ UNCHANGED <<enc, input, cnt, err, cmpy, ret>>

\* v := stdLookupSWAR6(u) or urlLookupSWAR6(u) for the six bytes of the
\* eight sextets back in bits 63..16 of u and b in both of its low bytes.
LookupSWAR6Call ==
  /\ pc = "start"
  /\ \E alpha \in {"std", "url"} :
     \E j \in 0..MaxStrideStep :
     \E b \in LowBytes :
     \E q \in {Sextets(input[1], j, 8)} :
       /\ back' = q
       /\ cmpx' = <<b>>
       /\ output' = SWAR6Of(alpha,
                      BE(PackSextets(SubSeq(q, 1, 4))
                           \o PackSextets(SubSeq(q, 5, 8)) \o <<b, b>>))
       /\ pc' = IF alpha = "std" THEN "stdLookupSWAR6" ELSE "urlLookupSWAR6"
  /\ UNCHANGED <<enc, input, cnt, err, cmpy, ret>>

NextLookup ==
  \/ StdRevLookupCall
  \/ StdLookupCall
  \/ StdLookupBackCall
  \/ UrlRevLookupCall
  \/ UrlLookupCall
  \/ UrlLookupBackCall
  \/ LookupSWAR3Call
  \/ LookupSWAR6Call

SpecLookup == InitLookup /\ [][NextLookup]_vars

-----------------------------------------------------------------------------
(* Reference definitions the properties are stated with: RFC 4648 and the  *)
(* hexadecimal digits, written down independently of the code above.       *)

RefChar(i, c62, c63) ==
  IF i < 26 THEN 65 + i
  ELSE IF i < 52 THEN 97 + (i - 26)
  ELSE IF i < 62 THEN 48 + (i - 52)
  ELSE IF i = 62 THEN c62 ELSE c63

\* "A-Za-z0-9+/" and "A-Za-z0-9-_", 1-based.
RefStdAlphabet == AsSeq([k \in 1..64 |-> RefChar(k - 1, 43, 47)])

RefUrlAlphabet == AsSeq([k \in 1..64 |-> RefChar(k - 1, 45, 95)])

RefAlphabet(e) ==
  IF e \in {URLEncoding, RawURLEncoding, Strict(URLEncoding),
            Strict(RawURLEncoding)}
  THEN RefUrlAlphabet ELSE RefStdAlphabet

InAlphabet(e, c) == \E k \in 1..64 : RefAlphabet(e)[k] = c

\* The sextet a character of the alphabet stands for.
RefIndex(e, c) == (CHOOSE k \in 1..64 : RefAlphabet(e)[k] = c) - 1

IsPadded(e) == e \in {StdEncoding, URLEncoding, Strict(StdEncoding),
                      Strict(URLEncoding)}

\* The RFC 4648 encoding of s with the 1-based alphabet A, padded with '='
\* when padded is TRUE.
RECURSIVE RefEncode(_, _, _)
RefEncode(s, A, padded) ==
  IF Len(s) = 0 THEN <<>>
  ELSE IF Len(s) = 1
  THEN LET v == s[1] * 16
       IN  <<A[(v \div 64) + 1], A[(v % 64) + 1]>>
             \o (IF padded THEN <<61, 61>> ELSE <<>>)
  ELSE IF Len(s) = 2
  THEN LET v == (s[1] * 256 + s[2]) * 4
       IN  <<A[(v \div 4096) + 1], A[((v \div 64) % 64) + 1], A[(v % 64) + 1]>>
             \o (IF padded THEN <<61>> ELSE <<>>)
  ELSE LET v == s[1] * 65536 + s[2] * 256 + s[3]
       IN  <<A[(v \div 262144) + 1], A[((v \div 4096) % 64) + 1],
             A[((v \div 64) % 64) + 1], A[(v % 64) + 1]>>
             \o RefEncode(SubSeq(s, 4, Len(s)), A, padded)

\* The number of '=' among the last two bytes of a padded input.
RefPadCount(e, s) ==
  IF IsPadded(e) /\ Len(s) >= 2
  THEN (IF s[Len(s)] = 61 THEN 1 ELSE 0) + (IF s[Len(s) - 1] = 61 THEN 1 ELSE 0)
  ELSE 0

\* The input without its stripped padding.
RefStripped(e, s) == SubSeq(s, 1, Len(s) - RefPadCount(e, s))

\* TRUE when the length of s passes the length validation of e.
RefLengthOK(e, s) ==
  IF IsPadded(e) THEN Len(s) % 4 = 0 ELSE Len(s) % 4 # 1

\* 3 * floor(L / 4) plus 0, 1 or 2 for L mod 4 = 0, 2, 3.
RefCount(L) == 3 * (L \div 4) + (IF L % 4 = 0 THEN 0 ELSE (L % 4) - 1)

RefAllValid(e, s) == \A k \in 1..Len(s) : InAlphabet(e, s[k])

\* "0123456789abcdef", 1-based.
LowerHex == <<48, 49, 50, 51, 52, 53, 54, 55, 56, 57, 97, 98, 99, 100, 101, 102>>

IsHexChar(c) == c \in (48..57) \cup (65..70) \cup (97..102)

HexValue(c) ==
  IF c \in 48..57 THEN c - 48 ELSE IF c \in 65..70 THEN c - 55 ELSE c - 87

\* The value of at most three bytes read as a big-endian unsigned integer.
RECURSIVE BEValue(_)
BEValue(s) ==
  IF s = <<>> THEN 0 ELSE 256 * BEValue(SubSeq(s, 1, Len(s) - 1)) + s[Len(s)]

\* x <= y for equally long big-endian integers: the bytes before the last
\* three decide, then the last three.
BELessOrEq(x, y) ==
  LET cut  == IF Len(x) > 3 THEN Len(x) - 3 ELSE 0
      hi(s) == BEValue(SubSeq(s, 1, cut))
      lo(s) == BEValue(SubSeq(s, cut + 1, Len(s)))
  IN  \/ hi(x) < hi(y)
      \/ hi(x) = hi(y) /\ lo(x) <= lo(y)

-----------------------------------------------------------------------------
(* The properties.                                                         *)

\* C1: for each of the four canonical encodings and every byte string,
\* decoding what Encode produced returns a nil error, n = len(s) and the
\* bytes of s.
Base64RoundTrip ==
  pc = "DecodeBack" =>
    /\ err = NoError
    /\ cnt = Len(input)
    /\ SubSeq(back, 1, Len(input)) = input

\* C2: for each of the four canonical encodings and every byte string,
\* Encode writes exactly the RFC 4648 encoding with the same alphabet and
\* the same padding setting.
EncodeEqualsReference ==
  pc = "Encode" =>
    LET ref == RefEncode(input, RefAlphabet(enc), IsPadded(enc))
    IN  /\ Len(output) >= Len(ref)
        /\ SubSeq(output, 1, Len(ref)) = ref

\* C3: hex.Encode writes 2 * len(s) lower-case digits, high nibble first,
\* and returns 2 * len(s); hex.Decode of them returns (len(s), nil) and s.
HexRoundTrip ==
  /\ pc = "HexEncode" =>
       /\ cnt = 2 * Len(input)
       /\ Len(output) >= cnt
       /\ \A k \in 1..Len(input) :
            /\ output[2 * k - 1] = LowerHex[(input[k] \div 16) + 1]
            /\ output[2 * k] = LowerHex[(input[k] % 16) + 1]
  /\ pc = "HexDecodeBack" =>
       /\ cnt = Len(input)
       /\ err = NoError
       /\ SubSeq(back, 1, Len(input)) = input

HexRoundTripWitness ==
  /\ pc = "HexDecodeBack"
  /\ input = <<255, 97>>
  /\ SubSeq(output, 1, 4) = <<102, 102, 54, 49>>
  /\ cnt = 2
  /\ SubSeq(back, 1, 2) = <<255, 97>>

\* C4: hex.Decode returns (floor(j / 2), InvalidByteError(src[j])) for the
\* first invalid byte src[j], whatever the length; else (floor(len / 2),
\* ErrLength) for an odd length; else (len / 2, nil) and the decoded bytes,
\* letters of either case accepted.
HexDecodeResult ==
  pc = "HexDecode" =>
    LET bad == {j \in 1..Len(input) : ~IsHexChar(input[j])}
    IN  IF bad # {}
        THEN LET first == CHOOSE j \in bad : \A m \in bad : j <= m
             IN  /\ cnt = (first - 1) \div 2
                 /\ err = InvalidByteError(input[first])
        ELSE IF Len(input) % 2 = 1
        THEN /\ cnt = Len(input) \div 2
             /\ err = ErrLength
        ELSE /\ cnt = Len(input) \div 2
             /\ err = NoError
             /\ \A k \in 1..cnt :
                  output[k] = 16 * HexValue(input[2 * k - 1])
                                + HexValue(input[2 * k])

HexDecodeResultWitness ==
  /\ pc = "HexDecode"
  /\ input = <<63, 48, 103, 70>>
  /\ cnt = 0
  /\ err = InvalidByteError(63)

\* C5: for byte strings of equal length, ConstantTimeBigEndianLessOrEq
\* returns 1 if x <= y as big-endian unsigned integers and 0 otherwise.
BigEndianLessOrEqCorrect ==
  (pc = "BigEndianLessOrEq" /\ Len(cmpx) = Len(cmpy)) =>
    ret = (IF BELessOrEq(cmpx, cmpy) THEN 1 ELSE 0)

BigEndianLessOrEqWitness ==
  /\ pc = "BigEndianLessOrEq"
  /\ cmpx = <<1, 128, 0>>
  /\ cmpy = <<1, 0, 255>>
  /\ ret = 0

\* C6: Decode returns (0, ErrCorrupt) and leaves dst alone for a padded
\* non-empty src whose length is no multiple of 4 and for an unpadded src
\* of length 1 mod 4; an unpadded src of length 0, 2 or 3 mod 4 goes on to
\* the scan; an empty src yields (0, nil).
DecodeLengthValidation ==
  pc = "Decode" =>
    LET untouched == output = Fill(Len(output))
        rejected  == cnt = 0 /\ err = ErrCorrupt /\ untouched
    IN  /\ Len(input) = 0 => (cnt = 0 /\ err = NoError)
        /\ (IsPadded(enc) /\ Len(input) % 4 # 0) => rejected
        /\ (~IsPadded(enc) /\ Len(input) % 4 = 1) => rejected
        /\ (~IsPadded(enc) /\ Len(input) > 0 /\ Len(input) % 4 # 1) =>
             cnt = RefCount(Len(input))

DecodeLengthValidationWitness ==
  /\ pc = "Decode"
  /\ enc = StdEncoding
  /\ Len(input) = 6
  /\ Len(output) = 5
  /\ cnt = 0
  /\ err = ErrCorrupt
  /\ output = Fill(5)

\* C7: for a src that passes the length check, Decode returns
\* n = 3 * floor(L / 4) plus 0, 1 or 2 (L the length after pad stripping),
\* and ErrCorrupt iff some remaining character is outside the alphabet;
\* StdEncoding.Decode("aGVsb?8=") returns (5, ErrCorrupt).
DecodeScansWholeInput ==
  (pc = "Decode" /\ RefLengthOK(enc, input)) =>
    LET rest == RefStripped(enc, input)
    IN  /\ cnt = RefCount(Len(rest))
        /\ err = (IF RefAllValid(enc, rest) THEN NoError ELSE ErrCorrupt)
        /\ (enc = StdEncoding /\ input = DocExample) =>
             (cnt = 5 /\ err = ErrCorrupt)

\* C8: after Decode, every byte of dst at an index >= DecodedLen(len(src))
\* still holds its value from before the call.
DecodeWritesWithinDecodedLen ==
  pc = "Decode" =>
    \A k \in 1..Len(output) :
      k > DecodedLen(enc, Len(input)) => output[k] = 238

\* C9: with Strict(), an input ending in a partial group of valid
\* characters is ErrCorrupt iff the unused trailing bits are non-zero; the
\* non-strict encoding returns nil and the same bytes; full groups are
\* unaffected by the flag.
StrictTrailingBits ==
  (pc = "LaxDecode" /\ RefLengthOK(enc, input)) =>
    LET rest   == RefStripped(enc, input)
        last   == RefIndex(enc, rest[Len(rest)])
        unused == IF Len(rest) % 4 = 2 THEN last % 16 ELSE last % 4
    IN  /\ (RefAllValid(enc, rest) /\ Len(rest) % 4 \in {2, 3}) =>
             /\ err = (IF unused # 0 THEN ErrCorrupt ELSE NoError)
             /\ ret = <<cnt, NoError>>
             /\ back = output
        /\ Len(rest) % 4 = 0 =>
             /\ ret = <<cnt, err>>
             /\ back = output

\* C10 as stated: StdEncoding.Strict() decodes "AQ" to the byte 0x01 with a
\* nil error.
StrictStdDecodesAQ ==
  (pc = "StrictDecode" /\ enc = StdEncoding /\ input = <<65, 81>>) =>
    /\ err = NoError
    /\ cnt = 1
    /\ output[1] = 1

\* C10, amended: RawStdEncoding.Strict() decodes "AQ" to the byte 0x01 with
\* a nil error, and StdEncoding.Strict() does so for the padded "AQ=="; the
\* unpadded "AQ" it rejects with (0, ErrCorrupt).
StrictDecodesAQ ==
  pc = "StrictDecode" =>
    /\ (enc = RawStdEncoding /\ input = <<65, 81>>) =>
         (err = NoError /\ cnt = 1 /\ output = <<1>>)
    /\ (enc = StdEncoding /\ input = <<65, 81, 61, 61>>) =>
         (err = NoError /\ cnt = 1 /\ output[1] = 1)
    /\ (enc = StdEncoding /\ input = <<65, 81>>) =>
         (err = ErrCorrupt /\ cnt = 0)

StrictDecodesAQWitness ==
  /\ pc = "StrictDecode"
  /\ enc = RawStdEncoding
  /\ input = <<65, 81>>
  /\ err = NoError
  /\ cnt = 1
  /\ output = <<1>>

\* C11: WithPadding panics for every r that is '\r', '\n', greater than 0xff
\* or a character of either RFC 4648 alphabet; for an accepted r it returns
\* a copy with that pad character and leaves the receiver unchanged.
WithPaddingRejectsAlphabet ==
  /\ [](pc = "WithPadding" =>
          /\ input \notin {13, 10}
          /\ input <= 255
          /\ \A k \in 1..64 :
               RefStdAlphabet[k] # input /\ RefUrlAlphabet[k] # input
          /\ output = <<[enc EXCEPT !.padChar = input]>>)
  /\ [][enc' = enc]_vars

EncodeWritesEncodedLen ==
  pc = "Encode" =>
    LET m == IF IsPadded(enc) THEN ((Len(input) + 2) \div 3) * 4
             ELSE (8 * Len(input) + 5) \div 6
    IN  /\ EncodedLen(enc, Len(input)) = m
        /\ Len(output) >= m
        /\ \A k \in 1..Len(output) :
             IF k <= m THEN output[k] # Fill(1)[1] ELSE output[k] = Fill(1)[1]
        /\ Len(input) = 0 => output = Fill(Len(output))

EncodeWritesEncodedLenWitness ==
  /\ pc = "Encode"
  /\ enc = RawURLEncoding
  /\ input = PlainGroup \o <<255, 0, 251, 0>>
  /\ Len(output) = 16
  /\ \A k \in 1..14 : output[k] # Fill(1)[1]
  /\ output[15] = Fill(1)[1]
  /\ output[16] = Fill(1)[1]

\* C14: for all bytes x and y, ConstantTimeByteGreater(x, y) is 1 iff x > y
\* and 0 otherwise, ConstantTimeByteLessOrEq(x, y) is 1 iff x <= y and 0
\* otherwise, and the two results are complementary.
ByteCompareCorrect ==
  /\ pc \in {"ByteGreater", "ByteLessOrEq"} =>
       ret = (IF cmpx[1] > cmpy[1] THEN 1 ELSE 0)
  /\ pc = "ByteLessOrEq" =>
       /\ cnt = (IF cmpx[1] <= cmpy[1] THEN 1 ELSE 0)
       /\ cnt + ret = 1

ByteCompareWitness ==
  /\ pc = "ByteLessOrEq"
  /\ cmpx = <<128>>
  /\ cmpy = <<128>>
  /\ ret = 0
  /\ cnt = 1

\* C15: for a stream of odd length whose characters before the last are
\* hex digits, the hex stream decoder delivers the bytes of all complete
\* pairs and then reports InvalidByteError(last) if the last byte is no hex
\* character and io.ErrUnexpectedEOF otherwise; it reports the error only
\* once the buffered pairs are consumed.
HexStreamOddTail ==
  (/\ Len(back) % 2 = 1
   /\ \A k \in 1..(Len(back) - 1) : IsHexChar(back[k])) =>
    LET pairs == [k \in 1..(Len(back) \div 2) |->
                    16 * HexValue(back[2 * k - 1]) + HexValue(back[2 * k])]
    IN  /\ Len(output) <= Len(pairs)
        /\ \A k \in 1..Len(output) : output[k] = pairs[k]
        /\ err # NoError =>
             /\ err = (IF IsHexChar(back[Len(back)]) THEN ErrUnexpectedEOF
                       ELSE InvalidByteError(back[Len(back)]))
             /\ Len(output) = Len(pairs)
             /\ Len(enc.in) < 2
             /\ input = <<>>

HexStreamOddTailWitness ==
  /\ pc = "decoder.Read"
  /\ back = <<49, 102, 102, 49, 103>>
  /\ output = <<31, 241>>
  /\ cnt = 0
  /\ err = InvalidByteError(103)

\* C16: while the underlying writer has not failed, after Writes of N bytes
\* in all the stream encoder has written 4 * floor(N / 3) bytes, holds the
\* last N mod 3 bytes buffered and every Write returned (len(p), nil); a
\* Close brings the total written to EncodedLen(N), and a second Close
\* writes nothing.
EncoderAccounting ==
  enc.err = NoError =>
    /\ ret = 0 =>
         /\ Len(output) = 4 * (Len(input) \div 3)
         /\ enc.nbuf = Len(input) % 3
         /\ SubSeq(enc.buf, 1, enc.nbuf)
              = SubSeq(input, Len(input) - enc.nbuf + 1, Len(input))
    /\ pc = "encoder.Write" => (cnt = Len(back) /\ err = NoError)
    /\ ret >= 1 =>
         /\ Len(output) = EncodedLen(enc.enc, Len(input))
         /\ enc.nbuf = 0
         /\ err = NoError

EncoderAccountingWitness ==
  /\ pc = "encoder.Close"
  /\ ret = 2
  /\ enc.err = NoError
  /\ enc.enc = StdEncoding
  /\ Len(input) = 4
  /\ Len(output) = 8
  /\ SubSeq(output, 7, 8) = <<61, 61>>

\* The bytes RFC 4648 assigns to a string of characters of the alphabet of
\* e whose length is 0, 2 or 3 mod 4.
RECURSIVE RefDecode(_, _)
RefDecode(e, s) ==
  IF Len(s) < 2 THEN <<>>
  ELSE LET v == [k \in 1..4 |-> IF k <= Len(s) THEN RefIndex(e, s[k]) ELSE 0]
           b == <<(4 * v[1] + (v[2] \div 16)) % 256,
                  (16 * v[2] + (v[3] \div 4)) % 256,
                  (64 * v[3] + v[4]) % 256>>
       IN  IF Len(s) >= 4 THEN b \o RefDecode(e, SubSeq(s, 5, Len(s)))
           ELSE SubSeq(b, 1, Len(s) - 1)

IsPrefix(s, t) == Len(s) <= Len(t) /\ SubSeq(t, 1, Len(s)) = s

\* C17: when the stream ends k = 1, 2 or 3 characters after its last
\* complete group (all characters in the alphabet), the stream decoder of an
\* unpadded encoding delivers the 1 or 2 bytes of a fragment of 2 or 3
\* characters and then returns io.EOF, and returns ErrCorrupt for k = 1; the
\* decoder of a padded encoding returns io.ErrUnexpectedEOF and delivers no
\* byte of the fragment.
B64StreamTail ==
  (Len(back) % 4 # 0 /\ RefAllValid(enc.enc, back)) =>
    LET whole  == SubSeq(back, 1, Len(back) - (Len(back) % 4))
        due    == IF ~IsPadded(enc.enc) /\ Len(back) % 4 \in {2, 3}
                  THEN RefDecode(enc.enc, back)
                  ELSE RefDecode(enc.enc, whole)
        ending == IF IsPadded(enc.enc) THEN ErrUnexpectedEOF
                  ELSE IF Len(back) % 4 = 1 THEN ErrCorrupt ELSE EOF
    IN  /\ IsPrefix(output, due)
        /\ err # NoError => (err = ending /\ output = due)

\* s without its '\r' and '\n'.
RECURSIVE RefNoNewlines(_)
RefNoNewlines(s) ==
  IF s = <<>> THEN <<>>
  ELSE (IF Head(s) \in {13, 10} THEN <<>> ELSE <<Head(s)>>)
         \o RefNoNewlines(Tail(s))

\* C18: the bytes NewlineFilteringReader has returned so far are the
\* upstream bytes read so far without their '\r' and '\n', in order,
\* however the upstream reader chunks them; it returns n = 0 only when the
\* upstream read itself returned 0 bytes.
NewlineFiltered ==
  /\ output \o RefNoNewlines(input) = RefNoNewlines(back)
  /\ (pc = "newlineFilteringReader.Read" /\ cnt = 0) => ret = 0
  /\ pc = "newlineFilteringReader.Read" => cnt <= ret

NewlineFilteredWitness ==
  /\ pc = "newlineFilteringReader.Read"
  /\ back = <<13, 10, 65, 10, 98>>
  /\ input = <<>>
  /\ output = <<65, 98>>
  /\ cnt = 1
  /\ ret = 2

\* The sum of the halves, rounded down, of the counts in s.
RECURSIVE RefSumHalves(_)
RefSumHalves(s) ==
  IF s = <<>> THEN 0 ELSE Head(s) \div 2 + RefSumHalves(Tail(s))

\* C19: a Write of the hex stream encoder hands p to the writer in chunks
\* of at most 512 source bytes and returns the sum over the chunks of half
\* the count the writer reported, rounded down: len(p) and no error when
\* the writer takes everything, less when a write is short; the loop stops
\* at the first writer error, which is returned by this Write and by every
\* later one, without a further call of the writer.
HexEncoderWriteCount ==
  [][/\ cnt' = RefSumHalves(cmpy')
     /\ \A i \in 1..Len(cmpx') : cmpx'[i] <= 2 * 512
     /\ enc.err = NoError =>
          /\ RefSumHalves(cmpx') <= 2 * Len(back')
          /\ cmpy' = cmpx' =>
               /\ cnt' = Len(back')
               /\ err' = NoError
               /\ \A i \in 1..(Len(cmpx') - 1) : cmpx'[i] = 2 * 512
          /\ cmpy' # cmpx' =>
               /\ cnt' < Len(back')
               /\ err' = ErrWriter
               /\ Len(cmpy') = ret'
               /\ \A i \in 1..(ret' - 1) : cmpy'[i] = cmpx'[i]
     /\ enc.err # NoError =>
          /\ cnt' = 0
          /\ err' = enc.err
          /\ enc' = enc
          /\ cmpx' = <<>>
          /\ output' = output
    ]_vars

HexEncoderWriteCountWitness ==
  /\ pc = "encoder.Write"
  /\ Len(back) = bufferSize + 1
  /\ cmpx = <<1024, 1024>>
  /\ cmpy = <<1024, 3>>
  /\ cnt = 513
  /\ err = ErrWriter
  /\ enc.err = ErrWriter

\* The index of c in the standard alphabet, 255 when it is not in it.
RefStdIndex(c) ==
  IF \E k \in 1..64 : RefStdAlphabet[k] = c
  THEN (CHOOSE k \in 1..64 : RefStdAlphabet[k] = c) - 1
  ELSE 255

\* C20: for every byte c, stdRevLookup(c) is the index of c in the standard
\* alphabet, or 0xff when c is not in it; stdRevLookup(stdLookup(i)) = i
\* for every 6-bit i.
StdRevLookupExact ==
  /\ pc = "stdRevLookup" => ret = RefStdIndex(input[1])
  /\ pc = "stdRevLookup(stdLookup)" => ret = input[1]

StdRevLookupExactWitness ==
  /\ pc = "stdRevLookup(stdLookup)"
  /\ input = <<63>>
  /\ output = <<47>>
  /\ ret = 63

\* The index of c in the URL alphabet, 255 when it is not in it.
RefUrlIndex(c) ==
  IF \E k \in 1..64 : RefUrlAlphabet[k] = c
  THEN (CHOOSE k \in 1..64 : RefUrlAlphabet[k] = c) - 1
  ELSE 255

\* C21: for every byte c, urlRevLookup(c) is the index of c in the URL
\* alphabet ('-' is 62, '_' is 63), or 0xff when c is not in it, as for
\* '+' and '/'; urlRevLookup(urlLookup(i)) = i for every 6-bit i.
UrlRevLookupExact ==
  /\ pc = "urlRevLookup" => ret = RefUrlIndex(input[1])
  /\ pc = "urlRevLookup(urlLookup)" => ret = input[1]

\* The characters of the alphabet A at the sextets q.
RefChars(A, q) == AsSeq([k \in 1..Len(q) |-> A[q[k] + 1]])

\* C22: stdLookup(i) is character i of the standard alphabet for every
\* 6-bit i; lane k of stdLookupSWAR3 and of stdLookupSWAR6 is stdLookup of
\* sextet k of the group, the most significant sextet in lane 0, whatever
\* the low bits of the input hold.
StdLookupsAgree ==
  /\ pc = "stdLookup" => output = <<RefStdAlphabet[input[1] + 1]>>
  /\ pc \in {"stdLookupSWAR3", "stdLookupSWAR6"} =>
       /\ output = AsSeq([k \in 1..Len(back) |-> stdLookup(back[k])])
       /\ output = RefChars(RefStdAlphabet, back)

StdLookupsAgreeWitness ==
  /\ pc = "stdLookupSWAR3"
  /\ back = <<61, 62, 63, 0>>
  /\ cmpx = <<255>>
  /\ output = <<57, 43, 47, 65>>

\* C23: urlLookup(i) is character i of the URL alphabet for every 6-bit i
\* (62 is '-', 63 is '_'); lane k of urlLookupSWAR3 and of urlLookupSWAR6
\* is urlLookup of sextet k of the group.
UrlLookupsAgree ==
  /\ pc = "urlLookup" => output = <<RefUrlAlphabet[input[1] + 1]>>
  /\ pc \in {"urlLookupSWAR3", "urlLookupSWAR6"} =>
       output = AsSeq([k \in 1..Len(back) |-> urlLookup(back[k])])

B64StreamErrorSticky ==
  [][(pc = "decoder.Read" /\ err # NoError) => (cnt' = 0 /\ err' # NoError)]_vars

\* C26: a stream for which Decode of the whole stream returns ErrCorrupt
\* is never read to its end without an error: the stream decoder does not
\* return io.EOF for it, however the underlying reader chunks it and
\* whatever the lengths of the buffers.
B64StreamRejectsCorrupt ==
  (pc = "decoder.Read" /\ err = EOF) =>
    Decode(enc.enc, Fill(DecodedLen(enc.enc, Len(back))), back).err # ErrCorrupt

\* C27: however the underlying reader splits the stream and whatever the
\* lengths of the buffers, the bytes the hex stream decoder has delivered
\* are a prefix of the first n bytes hex.Decode writes for the whole
\* stream, and all of them once it returns an error; the error is io.EOF
\* when hex.Decode returns none, and that of hex.Decode when hex.Decode
\* returns InvalidByteError of the first invalid byte; after an error every
\* later Read returns (0, that error).
HexStreamAgreesWithBlock ==
  /\ [](\A blk \in {HexDecode(Fill(Len(back) \div 2), back)} :
          /\ IsPrefix(output, SubSeq(blk.dst, 1, blk.n))
          /\ err # NoError =>
               /\ output = SubSeq(blk.dst, 1, blk.n)
               /\ blk.err = NoError => err = EOF
               /\ blk.err \notin {NoError, ErrLength} => err = blk.err)
  /\ [][(pc = "decoder.Read" /\ err # NoError) => (cnt' = 0 /\ err' = err)]_vars

HexStreamAgreesWithBlockWitness ==
  /\ pc = "decoder.Read"
  /\ back = <<49, 49, 104, 103>>
  /\ output = <<17>>
  /\ cnt = 0
  /\ err = InvalidByteError(104)

====
